---- MODULE Spec2Model ----
(***************************************************************************)
(* Cap table engine of apps/captable-app/src/lib/storage.ts: the event     *)
(* fold (replayAllEvents / applyEvent and the seven event handlers), the   *)
(* proportional allocator and the helpers the handlers call.               *)
(*                                                                         *)
(* Conventions of the translation                                          *)
(*  - a Decimal is an exact rational <<n, d>> in lowest terms with d > 0;  *)
(*    d = 0 encodes decimal.js Infinity (<<1,0>>), -Infinity (<<-1,0>>)    *)
(*    and NaN (<<0,0>>).  The inputs of the model are chosen so that every *)
(*    value stays far below the 28 significant digits of the Decimal       *)
(*    configuration (storage.ts:682-685).                                  *)
(*  - a quantity (String(n) / parseInt(q, 10) in the code) is an integer.  *)
(*  - an absent optional string is "", an absent optional number is 0      *)
(*    (both are falsy in every test the code makes), an absent optional    *)
(*    object or array is the empty sequence <<>> and a present one is the  *)
(*    one-element sequence <<v>>.                                          *)
(*  - a date is a day number, ordered as new Date(s).getTime() orders it.  *)
(*  - objects that the code shares by reference (CapTableState) live in    *)
(*    heap; a reference is an index of heap.                               *)
(***************************************************************************)
EXTENDS Integers, Sequences, FiniteSets, TLC

VARIABLES
    heap,          \* every CapTableState object allocated so far
    cur,           \* replayAllEvents: the local variable `state` (a reference)
    snapshots,     \* replayAllEvents: the local array `snapshots`
    sortedEvents,  \* replayAllEvents: the local array `sortedEvents`
    idx,           \* replayAllEvents: number of loop iterations started
    pc,            \* replayAllEvents: "start", "loop", "thrown" or "done"
    error,         \* message of the Error that ended the replay, "" if none
    uuidSeed,      \* the random stream uuidv4 draws from in this run
    uuidCount,     \* number of uuidv4() calls made in this run
    events,        \* the caller's event list handed to replayAllEvents
    firstRun,      \* result of an earlier replay of the same list, <<>> if none
    alloc,         \* distributeSharesByLargestRemainder: call and result
    waterfall,     \* calculateExitWaterfall: call and result, <<>> if not called
    vest,          \* calculateVestedOptions: call and results
    db,            \* the tables companies and company_members, and the edge-function requests
    pricing        \* applyPricedRound: the locals of the price iteration, <<>> if not running

vars == <<heap, cur, snapshots, sortedEvents, idx, pc, error, uuidSeed,
          uuidCount, events, firstRun, alloc, waterfall, vest, db, pricing>>

(***************************************************************************)
(* Bounds of the model.                                                    *)
(***************************************************************************)
MaxEvents == 4

MaxReplayLen == 3

MaxTotal == 4

MaxRecipients == 3

(***************************************************************************)
(* Program constants.                                                      *)
(***************************************************************************)
ESOP_POOL_HOLDER_ID == "__esop_pool__"

NullDate == -1

DefaultCliffPercent == 25

MaxPriceIterations == 10

(***************************************************************************)
(* Decimal utilities.                                                      *)
(***************************************************************************)
Abs(n) == IF n < 0 THEN -n ELSE n

Sign(n) == IF n < 0 THEN -1 ELSE IF n > 0 THEN 1 ELSE 0

RECURSIVE GCD(_, _)
GCD(a, b) == IF b = 0 THEN a ELSE GCD(b, a % b)

\* new Decimal(n / d): lowest terms, positive denominator; d = 0 gives
\* Infinity, -Infinity or NaN as decimal.js does for a division by zero.
Rat(n, d) ==
    IF d = 0 THEN <<Sign(n), 0>>
    ELSE LET g == GCD(Abs(n), Abs(d))
         IN  <<Sign(d) * (n \div g), Abs(d) \div g>>

toDecimal(n) == <<n, 1>>

IsFinite(x) == x[2] # 0

IsNaN(x) == x[1] = 0 /\ x[2] = 0

plus(x, y) ==
    IF IsFinite(x) /\ IsFinite(y) THEN Rat(x[1] * y[2] + y[1] * x[2], x[2] * y[2])
    ELSE IF IsNaN(x) \/ IsNaN(y) THEN <<0, 0>>
    ELSE IF ~IsFinite(x) /\ ~IsFinite(y)
         THEN (IF x[1] = y[1] THEN x ELSE <<0, 0>>)
    ELSE IF ~IsFinite(x) THEN x ELSE y

neg(x) == <<-x[1], x[2]>>

minus(x, y) == plus(x, neg(y))

times(x, y) ==
    IF IsNaN(x) \/ IsNaN(y) THEN <<0, 0>> ELSE Rat(x[1] * y[1], x[2] * y[2])

div(x, y) ==
    IF IsNaN(x) \/ IsNaN(y) THEN <<0, 0>>
    ELSE IF ~IsFinite(x) /\ ~IsFinite(y) THEN <<0, 0>>
    ELSE IF ~IsFinite(y) THEN <<0, 1>>
    ELSE IF ~IsFinite(x) THEN <<x[1] * (IF y[1] < 0 THEN -1 ELSE 1), 0>>
    ELSE Rat(x[1] * y[2], x[2] * y[1])

\* x.lt(y); every comparison with NaN is false.
lt(x, y) ==
    IF IsNaN(x) \/ IsNaN(y) THEN FALSE
    ELSE IF IsFinite(x) /\ IsFinite(y) THEN x[1] * y[2] < y[1] * x[2]
    ELSE IF ~IsFinite(x) /\ ~IsFinite(y) THEN x[1] < y[1]
    ELSE IF ~IsFinite(x) THEN x[1] < 0
    ELSE y[1] > 0

gte(x, y) == IF IsNaN(x) \/ IsNaN(y) THEN FALSE ELSE ~lt(x, y)

lte(x, y) == gte(y, x)

isZero(x) == IsFinite(x) /\ x[1] = 0

absDec(x) == <<Abs(x[1]), x[2]>>

\* x.floor().toNumber() of a finite Decimal.
floorDec(x) == x[1] \div x[2]

\* roundShares: Decimal.round() under ROUND_HALF_UP (ties away from zero),
\* then toNumber(); defined on finite values.
roundShares(x) == Sign(x[1]) * ((2 * Abs(x[1]) + x[2]) \div (2 * x[2]))

\* Math.round of the number n / d (ties towards +Infinity), d # 0.
MathRound(n, d) ==
    LET r == Rat(n, d) IN (2 * r[1] + r[2]) \div (2 * r[2])

(***************************************************************************)
(* Sequence helpers standing for Array.prototype.find / filter / reduce.   *)
(***************************************************************************)
Indices(s) == 1..Len(s)

\* index of the first element satisfying Test, 0 when there is none
FindIndex(s, Test(_)) ==
    IF \E i \in Indices(s) : Test(s[i])
    THEN CHOOSE i \in Indices(s) :
            Test(s[i]) /\ \A j \in 1..(i - 1) : ~Test(s[j])
    ELSE 0

RECURSIVE SumSeq(_)
SumSeq(s) == IF s = <<>> THEN 0 ELSE s[1] + SumSeq(Tail(s))

RECURSIVE SumDec(_)
SumDec(s) == IF s = <<>> THEN <<0, 1>> ELSE plus(s[1], SumDec(Tail(s)))

(***************************************************************************)
(* Proportional allocator.                                                 *)
(***************************************************************************)
\* [...exactShares].sort((a, b) => b.remainder - a.remainder): the stable
\* order of the indices of rem by descending remainder.
\* the order of an unstable sort that puts the later of two equal remainders first
SortByRemainderDescLaterFirst(rem) ==
    LET n == Len(rem)
        before(i, j) == lt(rem[j], rem[i]) \/ (rem[i] = rem[j] /\ i > j)
        rank(i) == Cardinality({j \in 1..n : j # i /\ before(j, i)})
    IN  [k \in 1..n |-> CHOOSE i \in 1..n : rank(i) = k - 1]

SortByRemainderDesc(rem) ==
    LET n == Len(rem)
        before(i, j) == lt(rem[j], rem[i]) \/ (rem[i] = rem[j] /\ i < j)
        rank(i) == Cardinality({j \in 1..n : j # i /\ before(j, i)})
    IN  [k \in 1..n |-> CHOOSE i \in 1..n : rank(i) = k - 1]

\* Map.set(key, value) on a Map kept as a sequence of <<key, value>> pairs
MapSet(m, key, value) ==
    LET i == FindIndex(m, LAMBDA kv : kv[1] = key)
    IN  IF i = 0 THEN Append(m, <<key, value>>)
        ELSE [m EXCEPT ![i] = <<key, value>>]

\* Map.get(key) || 0
MapGetOr0(m, key) ==
    LET i == FindIndex(m, LAMBDA kv : kv[1] = key)
    IN  IF i = 0 THEN 0 ELSE m[i][2]

RECURSIVE MapFromEntries(_, _)
MapFromEntries(m, entries) ==
    IF entries = <<>> THEN m
    ELSE MapFromEntries(MapSet(m, entries[1][1], entries[1][2]), Tail(entries))

RECURSIVE AwardExtra(_, _, _, _, _)
AwardExtra(result, sortedIds, i, remaining, n) ==
    IF i < remaining /\ i < n
    THEN AwardExtra(MapSet(result, sortedIds[i + 1],
                           MapGetOr0(result, sortedIds[i + 1]) + 1),
                    sortedIds, i + 1, remaining, n)
    ELSE result

distributeSharesByLargestRemainder(totalShares, recipients) ==
    LET total == toDecimal(totalShares)
        n == Len(recipients)
        exact == [i \in 1..n |-> times(total, recipients[i].proportion)]
        floors == [i \in 1..n |-> floorDec(exact[i])]
        rem == [i \in 1..n |-> minus(exact[i], toDecimal(floors[i]))]
        distributed == SumSeq(floors)
        remaining == totalShares - distributed
        order == SortByRemainderDesc(rem)
        sortedIds == [k \in 1..n |-> recipients[order[k]].id]
        result0 == MapFromEntries(<<>>, [i \in 1..n |-> <<recipients[i].id, floors[i]>>])
        result == AwardExtra(result0, sortedIds, 0, remaining, n)
    IN  [i \in 1..n |-> [id |-> recipients[i].id,
                         shares |-> MapGetOr0(result, recipients[i].id)]]

\* the pool sized as the percentage of the existing shares
calculateESOPPoolOfExisting(existingShares, targetPercent) ==
    IF gte(targetPercent, toDecimal(1))
    THEN [err |-> "Target ESOP percentage must be less than 100%", shares |-> 0]
    ELSE [err |-> "", shares |-> roundShares(times(toDecimal(existingShares), targetPercent))]

calculateESOPPoolFromPercent(existingShares, targetPercent) ==
    LET existing == toDecimal(existingShares)
        p == targetPercent
    IN  IF gte(p, toDecimal(1))
        THEN [err |-> "Target ESOP percentage must be less than 100%", shares |-> 0]
        ELSE [err |-> "",
              shares |-> roundShares(div(times(existing, p), minus(toDecimal(1), p)))]

calculateESOPExtension(currentFullyDiluted, currentPoolSize, targetPercent) ==
    LET totalFD == toDecimal(currentFullyDiluted)
        currentPool == toDecimal(currentPoolSize)
        p == targetPercent
        nonPoolShares == minus(totalFD, currentPool)
        targetPool == div(times(nonPoolShares, p), minus(toDecimal(1), p))
        extension == minus(targetPool, currentPool)
        rounded == roundShares(extension)
    IN  IF rounded > 0 THEN rounded ELSE 0

(***************************************************************************)
(* State management.                                                       *)
(***************************************************************************)
\* uuidv4(): the n-th value of the random stream `seed`.  Values of one
\* stream are pairwise distinct; two streams share no value.
uuidv4(seed, n) == "u" \o ToString(seed) \o "-" \o ToString(n)

createInitialState(companyId) ==
    [companyId |-> companyId, asOfEventId |-> "", asOfDate |-> NullDate,
     shareClasses |-> <<>>, holdings |-> <<>>, safes |-> <<>>,
     people |-> <<>>, vestingSchedules |-> <<>>]

\* cloneState returning its argument instead of a copy
cloneStateAliasing(h, ref) == [heap |-> h, ref |-> ref]

\* JSON.parse(JSON.stringify(state)): a new object with the same content.
\* Returns the heap with the copy allocated and the reference of the copy.
cloneState(h, ref) == [heap |-> Append(h, h[ref]), ref |-> Len(h) + 1]

(***************************************************************************)
(* Helper functions of the handlers.                                       *)
(***************************************************************************)
HasPerson(st, id) == \E i \in Indices(st.people) : st.people[i].id = id

\* if (!state.people.find(p => p.id === id)) state.people.push({id, name, type})
\* the person pushed whether or not the state has it already
PushPerson(st, id, name, type) ==
    [st EXCEPT !.people = Append(@, [id |-> id, name |-> name, type |-> type])]

PushPersonIfNew(st, id, name, type) ==
    IF HasPerson(st, id) THEN st
    ELSE [st EXCEPT !.people = Append(@, [id |-> id, name |-> name, type |-> type])]

ShareClassOf(st, shareClassId) ==
    FindIndex(st.shareClasses, LAMBDA sc : sc.id = shareClassId)

\* state.shareClasses.find(sc => sc.type === type): index, 0 if none
FirstClassOfType(st, type) ==
    FindIndex(st.shareClasses, LAMBDA sc : sc.type = type)

NewHolding(id, holderId, shareClassId, quantity, sourceEventId, isOption) ==
    [id |-> id, holderId |-> holderId, shareClassId |-> shareClassId,
     quantity |-> quantity, sourceEventId |-> sourceEventId,
     isOption |-> isOption, strikePrice |-> <<>>, vestingScheduleId |-> "",
     vestingStartDate |-> NullDate, grantDate |-> NullDate,
     investmentAmount |-> <<>>]

calculatePreRoundMetrics(st) ==
    LET isLegal(h) ==
            LET c == ShareClassOf(st, h.shareClassId)
            IN  c # 0 /\ st.shareClasses[c].type # "option"
    IN  [legalIssuedShares |->
            SumSeq([i \in Indices(st.holdings) |->
                      IF isLegal(st.holdings[i]) THEN st.holdings[i].quantity ELSE 0]),
         fullyDilutedShares |->
            SumSeq([i \in Indices(st.holdings) |-> st.holdings[i].quantity])]

getUnallocatedESOPPool(st) ==
    LET i == FindIndex(st.holdings,
                       LAMBDA h : h.holderId = ESOP_POOL_HOLDER_ID /\ h.isOption)
    IN  IF i = 0 THEN 0 ELSE st.holdings[i].quantity

\* a SAFE with both terms converted at its discount, whatever its cap
calculateSAFEConversionPreferringDiscount(safe, roundPrice, preRoundMetrics) ==
    LET discountPrice == times(roundPrice, Rat(100 - safe.discountPercent, 100))
        capPrice == div(safe.valuationCap[1], toDecimal(preRoundMetrics.fullyDilutedShares))
        effectivePrice ==
            IF safe.discountPercent > 0 THEN discountPrice
            ELSE IF safe.valuationCap # <<>> /\ lt(capPrice, roundPrice) THEN capPrice
            ELSE roundPrice
    IN  [shares |-> roundShares(div(safe.principalAmount, effectivePrice)),
         effectivePrice |-> effectivePrice, method |-> "discount"]

\* storage.ts:1445-1488.  The factor 1 - discountPercent / 100 is a double in
\* the code; it is the exact fraction for the discounts drawn here (20, 50).
calculateSAFEConversion(safe, roundPrice, preRoundMetrics) ==
    LET principal == safe.principalAmount
        hasCap == safe.valuationCap # <<>>
        hasDiscount == safe.discountPercent > 0
        capPrice == div(safe.valuationCap[1], toDecimal(preRoundMetrics.fullyDilutedShares))
        discountPrice == times(roundPrice, Rat(100 - safe.discountPercent, 100))
        choice ==
            IF hasCap /\ hasDiscount
            THEN (IF lt(capPrice, discountPrice)
                  THEN <<capPrice, "cap">> ELSE <<discountPrice, "discount">>)
            ELSE IF hasCap
            THEN (IF lt(capPrice, roundPrice)
                  THEN <<capPrice, "cap">> ELSE <<roundPrice, "round_price">>)
            ELSE IF hasDiscount
            THEN (IF lt(discountPrice, roundPrice)
                  THEN <<discountPrice, "discount">> ELSE <<roundPrice, "round_price">>)
            ELSE <<roundPrice, "round_price">>
    IN  [shares |-> roundShares(div(principal, choice[1])),
         effectivePrice |-> choice[1], method |-> choice[2]]

DaysPerMonthTimes100 == 3044

\* Math.floor((evalDate.getTime() - startDate.getTime()) / (30.44 * 24 * 60 * 60 * 1000))
\* for dates given as day numbers.  The divisor evaluates to the double
\* 2630016000.0000005, just above 30.44 days, so a positive difference that
\* is an exact multiple of 30.44 days floors one month lower.
MonthsElapsed(startDay, evalDay) ==
    LET hundredths == (evalDay - startDay) * 100
        q == hundredths \div DaysPerMonthTimes100
    IN  IF hundredths > 0 /\ hundredths % DaysPerMonthTimes100 = 0
        THEN q - 1 ELSE q

\* Math.floor of a JavaScript number: NaN and the infinities are kept
MathFloor(x) == IF IsFinite(x) THEN toDecimal(floorDec(x)) ELSE x

\* Math.min of two JavaScript numbers: NaN if either is NaN
MathMin(a, b) ==
    IF IsNaN(a) \/ IsNaN(b) THEN <<0, 0>>
    ELSE IF lt(b, a) THEN b ELSE a

\* storage.ts:1516: schedule.initialCliffPercent || 25
CliffPercent(schedule) ==
    IF schedule.initialCliffPercent # 0
    THEN schedule.initialCliffPercent ELSE DefaultCliffPercent

\* storage.ts:1517: Math.floor(totalOptions * cliffPercent / 100)
CliffVested(totalOptions, schedule) ==
    (totalOptions * CliffPercent(schedule)) \div 100

\* storage.ts:1519-1526: the part vested after the cliff, a JavaScript
\* number: the division by remainingMonths = 0 gives NaN or an infinity
PostCliffVested(remainingOptions, monthsAfterCliff, remainingMonths) ==
    MathMin(toDecimal(remainingOptions),
            MathFloor(div(toDecimal(remainingOptions * monthsAfterCliff),
                          toDecimal(remainingMonths))))

\* storage.ts:1512-1528, for a schedule that was found
VestedUnderSchedule(schedule, totalOptions, monthsElapsed) ==
    IF monthsElapsed < schedule.cliffMonths THEN toDecimal(0)
    ELSE MathMin(toDecimal(totalOptions),
                 plus(toDecimal(CliffVested(totalOptions, schedule)),
                      PostCliffVested(
                          totalOptions - CliffVested(totalOptions, schedule),
                          monthsElapsed - schedule.cliffMonths,
                          schedule.totalMonths - schedule.cliffMonths)))

\* storage.ts:1504: holding.vestingStartDate || holding.grantDate || asOfDate
VestingStart(holding, asOfDate) ==
    IF holding.vestingStartDate # NullDate THEN holding.vestingStartDate
    ELSE IF holding.grantDate # NullDate THEN holding.grantDate
    ELSE asOfDate

\* the result is a JavaScript number, in the encoding of the decimals
calculateVestedOptions(holding, asOfDate, st) ==
    LET s == FindIndex(st.vestingSchedules,
                       LAMBDA v : v.id = holding.vestingScheduleId)
    IN  IF holding.vestingScheduleId = "" THEN toDecimal(holding.quantity)
        ELSE IF s = 0 THEN toDecimal(holding.quantity)
        ELSE VestedUnderSchedule(
                 st.vestingSchedules[s], holding.quantity,
                 MonthsElapsed(VestingStart(holding, asOfDate), asOfDate))

(***************************************************************************)
(* Event handlers.  A handler takes the state object it mutates (st), the  *)
(* event, and the number k of uuidv4() calls made before it; it returns    *)
(* the object as it is when the handler returns or throws, the new call    *)
(* count and the message of the Error thrown ("" when it returns).         *)
(***************************************************************************)
Ok(st, k) == [st |-> st, k |-> k, err |-> ""]

Thrown(st, k, msg) == [st |-> st, k |-> k, err |-> msg]

\* founderAllocations.find(a => a.personId === id)?.shares || 0
AllocationOf(allocations, id) ==
    LET i == FindIndex(allocations, LAMBDA a : a.id = id)
    IN  IF i = 0 THEN 0 ELSE allocations[i].shares

\* storage.ts:929-947, the loop over the founders from founder i on
RECURSIVE IncorporateFounders(_, _, _, _, _, _, _, _)
IncorporateFounders(st, founders, i, allocations, commonClassId, event, seed, k) ==
    IF i > Len(founders) THEN [st |-> st, k |-> k]
    ELSE
      LET founder == founders[i]
          st1 == PushPersonIfNew(st, founder.personId, founder.name, "founder")
          st2 == [st1 EXCEPT !.holdings = Append(@,
                    NewHolding(uuidv4(seed, k + 1), founder.personId, commonClassId,
                               AllocationOf(allocations, founder.personId),
                               event.id, FALSE))]
      IN  IncorporateFounders(st2, founders, i + 1, allocations, commonClassId,
                              event, seed, k + 1)

applyIncorporation(st, event, seed, k) ==
    LET data == event.data
        commonClassId == uuidv4(seed, k + 1)
        st1 == [st EXCEPT !.shareClasses = Append(@,
                  [id |-> commonClassId, name |-> "Common", type |-> "common",
                   seniorityRank |-> 0, liquidationPreferenceMultiple |-> 1,
                   participation |-> "non_participating",
                   participationCapMultiple |-> 0,
                   isConvertibleToCommon |-> FALSE,
                   pricePerShare |-> IF data.pricePerShare # <<>>
                                     THEN data.pricePerShare[1] ELSE Rat(1, 10000)])]
        hasPool == data.esopPool # <<>>
        st2 == IF hasPool
               THEN [st1 EXCEPT !.people = Append(@,
                       [id |-> ESOP_POOL_HOLDER_ID, name |-> "ESOP Pool (Unallocated)",
                        type |-> "esop_pool"])]
               ELSE st1
        founders == data.founders
        totalFounderShares == toDecimal(data.totalIssuedShares)
        founderAllocations ==
            IF data.founderInputMode = "percentage"
            THEN distributeSharesByLargestRemainder(
                    roundShares(totalFounderShares),
                    [i \in Indices(founders) |->
                        [id |-> founders[i].personId,
                         proportion |-> div(toDecimal(founders[i].percentage), toDecimal(100))]])
            ELSE [i \in Indices(founders) |->
                    [id |-> founders[i].personId, shares |-> founders[i].shares]]
        f == IncorporateFounders(st2, founders, 1, founderAllocations,
                                 commonClassId, event, seed, k + 1)
        optionClassId == uuidv4(seed, f.k + 1)
        st3 == [f.st EXCEPT !.shareClasses = Append(@,
                  [id |-> optionClassId, name |-> "Employee Options", type |-> "option",
                   seniorityRank |-> 0, liquidationPreferenceMultiple |-> 0,
                   participation |-> "non_participating",
                   participationCapMultiple |-> 0,
                   isConvertibleToCommon |-> TRUE, pricePerShare |-> <<>>])]
        esopPool == data.esopPool[1]
        founderTotal == SumSeq([i \in Indices(founderAllocations) |->
                                  founderAllocations[i].shares])
        fromPercent == calculateESOPPoolFromPercent(founderTotal,
                                                    Rat(esopPool.percentage, 100))
        esopShares == IF esopPool.inputMode = "percentage"
                      THEN fromPercent.shares ELSE esopPool.shares
    IN  IF ~hasPool THEN Ok(f.st, f.k)
        ELSE IF esopPool.inputMode = "percentage" /\ fromPercent.err # ""
        THEN Thrown(st3, f.k + 1, fromPercent.err)
        ELSE Ok([st3 EXCEPT !.holdings = Append(@,
                   NewHolding(uuidv4(seed, f.k + 2), ESOP_POOL_HOLDER_ID,
                              optionClassId, esopShares, event.id, TRUE))],
                f.k + 2)

\* storage.ts:1017-1045, one pass over convertingSafes from index i on,
\* accumulating totalSafeSharesCalc
RECURSIVE SafeSharesAtPrice(_, _, _, _, _, _)
SafeSharesAtPrice(convertingSafes, i, acc, pricePerShare, preRoundFD, totalNewShares) ==
    IF i > Len(convertingSafes) THEN acc
    ELSE
      LET safe == convertingSafes[i]
          principal == safe.principalAmount
          ownershipPercent == div(principal, safe.valuationCap[1])
          totalSharesEstimate == plus(plus(preRoundFD, totalNewShares), acc)
          postMoneyShares == div(times(totalSharesEstimate, ownershipPercent),
                                 minus(toDecimal(1), ownershipPercent))
          capPrice == div(safe.valuationCap[1], preRoundFD)
          afterCap == IF safe.valuationCap # <<>> /\ lt(capPrice, pricePerShare)
                      THEN capPrice ELSE pricePerShare
          discountPrice == times(pricePerShare, Rat(100 - safe.discountPercent, 100))
          effectivePrice == IF safe.discountPercent > 0 /\ lt(discountPrice, afterCap)
                            THEN discountPrice ELSE afterCap
          safeShares == IF safe.valuationType = "post_money" /\ safe.valuationCap # <<>>
                        THEN postMoneyShares
                        ELSE div(principal, effectivePrice)
      IN  SafeSharesAtPrice(convertingSafes, i + 1, plus(acc, safeShares),
                            pricePerShare, preRoundFD, totalNewShares)

PriceTolerance == Rat(1, 10000)

\* storage.ts:1013-1056, the loop from iteration iter on
RECURSIVE IteratePrice(_, _, _, _, _, _)
IteratePrice(iter, pricePerShare, postMoneyValuation, totalCashInvestment, preRoundFD, convertingSafes) ==
    IF iter >= MaxPriceIterations THEN pricePerShare
    ELSE
      LET totalNewShares == div(totalCashInvestment, pricePerShare)
          totalSafeSharesCalc == SafeSharesAtPrice(convertingSafes, 1, <<0, 1>>,
                                     pricePerShare, preRoundFD, totalNewShares)
          totalSharesAfter == plus(plus(preRoundFD, totalNewShares), totalSafeSharesCalc)
          newPrice == div(postMoneyValuation, totalSharesAfter)
      IN  IF lt(absDec(minus(newPrice, pricePerShare)), PriceTolerance)
          THEN newPrice
          ELSE IteratePrice(iter + 1, newPrice, postMoneyValuation,
                            totalCashInvestment, preRoundFD, convertingSafes)

SeriesLetters == <<"A", "B", "C", "D", "E", "F", "G", "H">>

\* the test for an earlier conversion left out
IsOutstandingUnchecked(safe) == TRUE

\* !s.convertedInEventId (storage.ts:988, 991, 1080)
IsOutstanding(safe) == safe.convertedInEventId = ""

\* data.safesToConvert || state.safes.filter(s => !s.convertedInEventId).map(s => s.id)
SafesToConvert(st, data) ==
    LET unconverted == SelectSeq(st.safes, IsOutstanding)
    IN  IF data.safesToConvert # <<>> THEN data.safesToConvert[1]
        ELSE [i \in Indices(unconverted) |-> unconverted[i].id]

\* safesToConvert.map(id => state.safes.find(s => s.id === id))
\*               .filter(s => !!s && !s.convertedInEventId): indices of state.safes
ConvertingSafes(st, data) ==
    LET safesToConvert == SafesToConvert(st, data)
        found == [i \in Indices(safesToConvert) |->
                    FindIndex(st.safes, LAMBDA s : s.id = safesToConvert[i])]
    IN  SelectSeq(found, LAMBDA s : s # 0 /\ IsOutstanding(st.safes[s]))

\* storage.ts:1078-1103, the loop over safesToConvert from index i on
RECURSIVE ConvertSafes(_, _, _, _, _, _, _, _, _)
ConvertSafes(st, safesToConvert, i, pricePerShare, preRoundMetrics, preferredClassId, event, seed, k) ==
    IF i > Len(safesToConvert) THEN [st |-> st, k |-> k]
    ELSE
      LET s == FindIndex(st.safes, LAMBDA x : x.id = safesToConvert[i])
      IN  IF s = 0 \/ ~IsOutstanding(st.safes[s])
          THEN ConvertSafes(st, safesToConvert, i + 1, pricePerShare,
                            preRoundMetrics, preferredClassId, event, seed, k)
          ELSE
            LET safe == st.safes[s]
                conversionResult == calculateSAFEConversion(safe, pricePerShare,
                                                            preRoundMetrics)
                st1 == PushPersonIfNew(st, safe.investorId,
                          IF safe.investorName # "" THEN safe.investorName
                          ELSE "SAFE Investor", "investor")
                st2 == [st1 EXCEPT
                          !.holdings = Append(@,
                             [NewHolding(uuidv4(seed, k + 1), safe.investorId,
                                         preferredClassId, conversionResult.shares,
                                         event.id, FALSE)
                              EXCEPT !.investmentAmount = <<safe.principalAmount>>]),
                          !.safes[s].convertedInEventId = event.id]
            IN  ConvertSafes(st2, safesToConvert, i + 1, pricePerShare,
                             preRoundMetrics, preferredClassId, event, seed, k + 1)

\* storage.ts:1124-1143, the loop over the cash investors from index i on
RECURSIVE IssueToInvestors(_, _, _, _, _, _, _, _)
IssueToInvestors(st, investors, i, distribution, preferredClassId, event, seed, k) ==
    IF i > Len(investors) THEN [st |-> st, k |-> k]
    ELSE
      LET investor == investors[i]
          st1 == PushPersonIfNew(st, investor.personId, investor.name, "investor")
          st2 == [st1 EXCEPT !.holdings = Append(@,
                    [NewHolding(uuidv4(seed, k + 1), investor.personId,
                                preferredClassId,
                                AllocationOf(distribution, investor.personId),
                                event.id, FALSE)
                     EXCEPT !.investmentAmount = <<investor.amount>>])]
      IN  IssueToInvestors(st2, investors, i + 1, distribution, preferredClassId,
                           event, seed, k + 1)

\* storage.ts:996-1056: the price per share of the round
RoundPrice(st, data) ==
    LET preRoundFD == toDecimal(calculatePreRoundMetrics(st).fullyDilutedShares)
        convertingIdx == ConvertingSafes(st, data)
        totalCashInvestment == data.totalNewMoney
    IN  IF data.valuationInputType = "price_per_share" THEN data.pricePerShare
        ELSE IF data.valuationInputType = "pre_money"
        THEN div(data.preMoneyValuation, preRoundFD)
        ELSE IteratePrice(0,
                div(minus(data.postMoneyValuation, totalCashInvestment), preRoundFD),
                data.postMoneyValuation, totalCashInvestment, preRoundFD,
                [i \in Indices(convertingIdx) |-> st.safes[convertingIdx[i]]])

\* storage.ts:1059-1075: the preferred class of the round, created unless
\* the event names one; `id` is preferredClassId
CreatePreferredClass(st, data, pricePerShare, seed, k) ==
    LET existingPreferred == Len(SelectSeq(st.shareClasses,
                                           LAMBDA sc : sc.type = "preferred"))
    IN  IF data.shareClassId = "" \/ data.createNewShareClass
        THEN [st |-> [st EXCEPT !.shareClasses = Append(@,
                       [id |-> uuidv4(seed, k + 1),
                        name |-> IF data.shareClassName # "" THEN data.shareClassName
                                 ELSE "Series " \o SeriesLetters[existingPreferred + 1],
                        type |-> "preferred",
                        seniorityRank |-> existingPreferred + 1,
                        liquidationPreferenceMultiple |->
                            IF data.liquidationPreference # 0
                            THEN data.liquidationPreference ELSE 1,
                        participation |-> IF data.participation # ""
                                          THEN data.participation
                                          ELSE "non_participating",
                        participationCapMultiple |-> data.participationCap,
                        isConvertibleToCommon |-> TRUE,
                        pricePerShare |-> pricePerShare])],
              k |-> k + 1, id |-> uuidv4(seed, k + 1)]
        ELSE [st |-> st, k |-> k, id |-> data.shareClassId]

\* storage.ts:1106-1144: new shares issued to the cash investors; c is the
\* state and the uuid count the conversions left
IssueNewShares(c, data, pricePerShare, preferredClassId, event, seed) ==
    LET investors == SelectSeq(data.investors, LAMBDA inv : lt(<<0, 1>>, inv.amount))
        totalCashInvestmentActual ==
            SumDec([i \in Indices(investors) |-> investors[i].amount])
        totalNewShares == IF isZero(totalCashInvestmentActual) THEN <<0, 1>>
                          ELSE div(totalCashInvestmentActual, pricePerShare)
    IN  IF Len(investors) > 0 /\ ~isZero(totalCashInvestmentActual)
        THEN IssueToInvestors(c.st, investors, 1,
                distributeSharesByLargestRemainder(
                    roundShares(totalNewShares),
                    [i \in Indices(investors) |->
                        [id |-> investors[i].personId,
                         proportion |-> div(investors[i].amount,
                                            totalCashInvestmentActual)]]),
                preferredClassId, event, seed, c.k)
        ELSE c

\* storage.ts:1147-1168: the pool extended to data.esopTargetPercent
ExtendPoolToTarget(n, data) ==
    LET extension == calculateESOPExtension(
                        calculatePreRoundMetrics(n.st).fullyDilutedShares,
                        getUnallocatedESOPPool(n.st),
                        Rat(data.esopTargetPercent, 100))
        poolHolding == FindIndex(n.st.holdings,
                          LAMBDA h : h.holderId = ESOP_POOL_HOLDER_ID /\ h.isOption)
    IN  IF data.esopTargetPercent # 0 /\ FirstClassOfType(n.st, "option") # 0
           /\ extension > 0 /\ poolHolding # 0
        THEN Ok([n.st EXCEPT !.holdings[poolHolding].quantity = @ + extension], n.k)
        ELSE Ok(n.st, n.k)

\* storage.ts:1059-1170: the round at the price computed, preRoundMetrics and
\* safesToConvert being those of the state before the event
PricedRoundAtPrice(st, event, seed, k, pricePerShare, preRoundMetrics, safesToConvert) ==
    ExtendPoolToTarget(
        IssueNewShares(
            ConvertSafes(CreatePreferredClass(st, event.data, pricePerShare, seed, k).st,
                         safesToConvert, 1, pricePerShare, preRoundMetrics,
                         CreatePreferredClass(st, event.data, pricePerShare, seed, k).id,
                         event, seed,
                         CreatePreferredClass(st, event.data, pricePerShare, seed, k).k),
            event.data, pricePerShare,
            CreatePreferredClass(st, event.data, pricePerShare, seed, k).id,
            event, seed),
        event.data)

applyPricedRound(st, event, seed, k) ==
    PricedRoundAtPrice(st, event, seed, k, RoundPrice(st, event.data),
                       calculatePreRoundMetrics(st), SafesToConvert(st, event.data))

\* storage.ts:1176-1198, the loop over the notes of the event from index i on
RECURSIVE IssueSafes(_, _, _, _, _, _)
IssueSafes(st, safes, i, event, seed, k) ==
    IF i > Len(safes) THEN [st |-> st, k |-> k]
    ELSE
      LET safe == safes[i]
          st1 == PushPersonIfNew(st, safe.investorId, safe.investorName, "investor")
          k1 == IF safe.id # "" THEN k ELSE k + 1
          st2 == [st1 EXCEPT !.safes = Append(@,
                    [id |-> IF safe.id # "" THEN safe.id ELSE uuidv4(seed, k + 1),
                     investorId |-> safe.investorId,
                     investorName |-> safe.investorName,
                     principalAmount |-> safe.principalAmount,
                     valuationType |-> IF safe.valuationType # ""
                                       THEN safe.valuationType ELSE "post_money",
                     valuationCap |-> safe.valuationCap,
                     discountPercent |-> safe.discountPercent,
                     mostFavoredNation |-> safe.mostFavoredNation,
                     issueDate |-> event.date,
                     convertedInEventId |-> ""])]
      IN  IssueSafes(st2, safes, i + 1, event, seed, k1)

\* only the first note of the event issued
applySAFEIssuanceOfFirstNote(st, event, seed, k) ==
    LET first == IF event.data.safes = <<>> THEN <<>> ELSE <<event.data.safes[1]>>
        r == IssueSafes(st, first, 1, event, seed, k)
    IN  Ok(r.st, r.k)

applySAFEIssuance(st, event, seed, k) ==
    LET r == IssueSafes(st, event.data.safes, 1, event, seed, k)
    IN  Ok(r.st, r.k)

applyESOPPoolCreation(st, event, seed, k) ==
    LET data == event.data
        st1 == PushPersonIfNew(st, ESOP_POOL_HOLDER_ID, "ESOP Pool (Unallocated)",
                               "esop_pool")
        existingClass == FirstClassOfType(st1, "option")
        k1 == IF existingClass = 0 THEN k + 1 ELSE k
        st2 == IF existingClass = 0
               THEN [st1 EXCEPT !.shareClasses = Append(@,
                       [id |-> uuidv4(seed, k + 1), name |-> "Employee Options",
                        type |-> "option", seniorityRank |-> 0,
                        liquidationPreferenceMultiple |-> 0,
                        participation |-> "non_participating",
                        participationCapMultiple |-> 0,
                        isConvertibleToCommon |-> TRUE, pricePerShare |-> <<>>])]
               ELSE st1
        optionClass == IF existingClass = 0 THEN st2.shareClasses[Len(st2.shareClasses)]
                       ELSE st2.shareClasses[existingClass]
        metrics == calculatePreRoundMetrics(st2)
        fromPercent == calculateESOPPoolFromPercent(metrics.legalIssuedShares,
                                                    Rat(data.percentage, 100))
        poolShares == IF data.inputMode = "percentage" THEN fromPercent.shares
                      ELSE data.shares
        existingPool == FindIndex(st2.holdings,
                           LAMBDA h : h.holderId = ESOP_POOL_HOLDER_ID
                                      /\ h.shareClassId = optionClass.id)
    IN  IF data.inputMode = "percentage" /\ fromPercent.err # ""
        THEN Thrown(st2, k1, fromPercent.err)
        ELSE IF existingPool # 0
        THEN Ok([st2 EXCEPT !.holdings[existingPool].quantity = @ + poolShares], k1)
        ELSE Ok([st2 EXCEPT !.holdings = Append(@,
                   NewHolding(uuidv4(seed, k1 + 1), ESOP_POOL_HOLDER_ID,
                              optionClass.id, poolShares, event.id, TRUE))],
                k1 + 1)

applyESOPPoolExtension(st, event, seed, k) ==
    LET data == event.data
        metrics == calculatePreRoundMetrics(st)
        currentPool == getUnallocatedESOPPool(st)
        extension == calculateESOPExtension(metrics.fullyDilutedShares, currentPool,
                                            Rat(data.targetPercent, 100))
        optionClass == FirstClassOfType(st, "option")
        \* optionClass?.id is undefined when there is no option class
        poolHolding == IF optionClass = 0 THEN 0
                       ELSE FindIndex(st.holdings,
                               LAMBDA h : h.holderId = ESOP_POOL_HOLDER_ID
                                  /\ h.shareClassId = st.shareClasses[optionClass].id)
    IN  IF extension > 0 /\ poolHolding # 0
        THEN Ok([st EXCEPT !.holdings[poolHolding].quantity = @ + extension], k)
        ELSE Ok(st, k)

\* the operands of the pool check exchanged
InsufficientPoolSwapped(currentPool, grantShares) == grantShares < currentPool

\* storage.ts:1315: currentPool < grantShares
InsufficientPool(currentPool, grantShares) == currentPool < grantShares

\* storage.ts:1299-1307: the number of shares an ESOP Grant asks for
\* the grant sized as the whole unallocated pool
GrantSharesOfPool(st, data) == getUnallocatedESOPPool(st)

GrantShares(st, data) ==
    IF data.grantMode = "percentage" /\ data.percentage # 0
    THEN MathRound(data.percentage * calculatePreRoundMetrics(st).fullyDilutedShares,
                   100 - data.percentage)
    ELSE data.shares

applyESOPGrant(st, event, seed, k) ==
    LET data == event.data
        st1 == PushPersonIfNew(st, data.employeeId, data.employeeName, "employee")
        optionClass == FirstClassOfType(st1, "option")
        optionClassId == st1.shareClasses[optionClass].id
        grantShares == GrantShares(st1, data)
        poolHolding == FindIndex(st1.holdings,
                          LAMBDA h : h.holderId = ESOP_POOL_HOLDER_ID
                                     /\ h.shareClassId = optionClassId)
        currentPool == st1.holdings[poolHolding].quantity
        st2 == IF poolHolding # 0
               THEN [st1 EXCEPT !.holdings[poolHolding].quantity = currentPool - grantShares]
               ELSE st1
        newSchedule == data.vestingSchedule # <<>> /\ data.vestingScheduleId = ""
        vestingScheduleId == IF newSchedule THEN uuidv4(seed, k + 1)
                             ELSE data.vestingScheduleId
        k1 == IF newSchedule THEN k + 1 ELSE k
        st3 == IF newSchedule
               THEN [st2 EXCEPT !.vestingSchedules = Append(@,
                       [id |-> vestingScheduleId,
                        cliffMonths |-> data.vestingSchedule[1].cliffMonths,
                        totalMonths |-> data.vestingSchedule[1].totalMonths,
                        vestingFrequency |-> data.vestingSchedule[1].vestingFrequency,
                        initialCliffPercent |-> data.vestingSchedule[1].initialCliffPercent])]
               ELSE st2
    IN  IF optionClass = 0
        THEN Thrown(st1, k, "No option share class exists. Create an ESOP pool first.")
        ELSE IF poolHolding # 0 /\ InsufficientPool(currentPool, grantShares)
        THEN Thrown(st1, k, "Insufficient ESOP pool")
        ELSE Ok([st3 EXCEPT !.holdings = Append(@,
                   [NewHolding(uuidv4(seed, k1 + 1), data.employeeId, optionClassId,
                               grantShares, event.id, TRUE)
                    EXCEPT !.strikePrice = data.strikePrice,
                           !.vestingScheduleId = vestingScheduleId,
                           !.vestingStartDate = IF data.vestingStartDate # NullDate
                                                THEN data.vestingStartDate
                                                ELSE event.date,
                           !.grantDate = event.date])],
                k1 + 1)

\* storage.ts:1367-1368: vestedOptions < exerciseShares
InsufficientVestedOptions(optionHolding, exerciseShares, asOfDate, st) ==
    lt(calculateVestedOptions(optionHolding, asOfDate, st),
       toDecimal(exerciseShares))

\* a fully exercised option holding spliced out of state.holdings
DebitOptionsDroppingEmpty(holdings, optionHolding, exerciseShares) ==
    IF holdings[optionHolding].quantity = exerciseShares
    THEN SubSeq(holdings, 1, optionHolding - 1)
            \o SubSeq(holdings, optionHolding + 1, Len(holdings))
    ELSE [holdings EXCEPT ![optionHolding].quantity = @ - exerciseShares]

\* storage.ts:1372: optionHolding.quantity = String(currentOptions - exerciseShares)
\* the exercised option holding left as it was
DebitNothing(holdings, optionHolding, exerciseShares) == holdings

DebitOptions(holdings, optionHolding, exerciseShares) ==
    [holdings EXCEPT ![optionHolding].quantity = @ - exerciseShares]

applyOptionExercise(st, event, seed, k) ==
    LET data == event.data
        optionClass == FirstClassOfType(st, "option")
        commonClass == FirstClassOfType(st, "common")
        optionHolding == FindIndex(st.holdings,
                            LAMBDA h : h.holderId = data.employeeId
                                       /\ h.shareClassId = st.shareClasses[optionClass].id
                                       /\ h.isOption)
        exerciseShares == data.shares
        st1 == [st EXCEPT !.holdings = DebitOptions(@, optionHolding, exerciseShares)]
        existingCommon == FindIndex(st1.holdings,
                             LAMBDA h : h.holderId = data.employeeId
                                        /\ h.shareClassId = st.shareClasses[commonClass].id
                                        /\ ~h.isOption)
    IN  IF optionClass = 0 \/ commonClass = 0
        THEN Thrown(st, k, "Option or common share class not found")
        ELSE IF optionHolding = 0
        THEN Thrown(st, k, "Employee has no option holdings")
        ELSE IF InsufficientVestedOptions(st.holdings[optionHolding],
                                          exerciseShares, event.date, st)
        THEN Thrown(st, k, "Insufficient vested options")
        ELSE IF existingCommon # 0
        THEN Ok([st1 EXCEPT !.holdings[existingCommon].quantity = @ + exerciseShares], k)
        ELSE Ok([st1 EXCEPT !.holdings = Append(@,
                   NewHolding(uuidv4(seed, k + 1), data.employeeId,
                              st.shareClasses[commonClass].id, exerciseShares,
                              event.id, FALSE))],
                k + 1)

(***************************************************************************)
(* Exit waterfall (storage.ts:1644-1848).  Amounts formatted by toFixed(2)  *)
(* are integers of cents.                                                  *)
(***************************************************************************)
\* Decimal.toFixed(2) under ROUND_HALF_UP, as a number of cents
toFixed2(x) == roundShares(times(x, toDecimal(100)))

gt(x, y) == lt(y, x)

\* Decimal.max(x, y)
maxDec(x, y) == IF lt(x, y) THEN y ELSE x

\* classes.sort((a, b) => b.seniorityRank - a.seniorityRank): stable
SortBySeniorityDesc(classes) ==
    LET n == Len(classes)
        before(i, j) == classes[i].seniorityRank > classes[j].seniorityRank
                        \/ (classes[i].seniorityRank = classes[j].seniorityRank /\ i < j)
        rank(i) == Cardinality({j \in 1..n : j # i /\ before(j, i)})
    IN  [k \in 1..n |-> classes[CHOOSE i \in 1..n : rank(i) = k - 1]]

PreferredClasses(st) == SelectSeq(st.shareClasses, LAMBDA sc : sc.type = "preferred")

\* storage.ts:1688-1707: the shares an unconverted SAFE converts into at exit
ExitSafeShares(safe, exitPricePerShare, preExitFD) ==
    LET capPrice == div(safe.valuationCap[1], preExitFD)
        afterCap == IF safe.valuationCap # <<>> /\ lt(capPrice, exitPricePerShare)
                    THEN capPrice ELSE exitPricePerShare
        discountPrice == times(exitPricePerShare, Rat(100 - safe.discountPercent, 100))
    IN  roundShares(div(safe.principalAmount,
                        IF safe.discountPercent > 0 /\ lt(discountPrice, afterCap)
                        THEN discountPrice ELSE afterCap))

\* storage.ts:1688-1727, the loop over unconvertedSAFEs from index i on
RECURSIVE ConvertSafesAtExit(_, _, _, _, _, _, _, _)
ConvertSafesAtExit(exitState, unconvertedSAFEs, i, exitPricePerShare, preExitFD, safeConversionClassId, seed, k) ==
    IF i > Len(unconvertedSAFEs) THEN exitState
    ELSE ConvertSafesAtExit(
            [PushPersonIfNew(exitState, unconvertedSAFEs[i].investorId,
                             IF unconvertedSAFEs[i].investorName # ""
                             THEN unconvertedSAFEs[i].investorName ELSE "SAFE Investor",
                             "investor")
             EXCEPT !.holdings = Append(@,
                [NewHolding(uuidv4(seed, k + 1), unconvertedSAFEs[i].investorId,
                            safeConversionClassId,
                            ExitSafeShares(unconvertedSAFEs[i], exitPricePerShare, preExitFD),
                            "", FALSE)
                 EXCEPT !.investmentAmount = <<unconvertedSAFEs[i].principalAmount>>])],
            unconvertedSAFEs, i + 1, exitPricePerShare, preExitFD,
            safeConversionClassId, seed, k + 1)

\* storage.ts:1667-1684: the class the SAFEs convert into, created when the
\* state has no preferred class
WithSafeConversionClass(st, exitValue, preExitFD, seed, k) ==
    IF Len(PreferredClasses(st)) > 0
    THEN [st |-> st, k |-> k, id |-> SortBySeniorityDesc(PreferredClasses(st))[1].id]
    ELSE [st |-> [st EXCEPT !.shareClasses = Append(@,
                    [id |-> uuidv4(seed, k + 1), name |-> "SAFE Conversion",
                     type |-> "preferred", seniorityRank |-> 1,
                     liquidationPreferenceMultiple |-> 1,
                     participation |-> "non_participating",
                     participationCapMultiple |-> 0,
                     isConvertibleToCommon |-> TRUE,
                     pricePerShare |-> div(exitValue, preExitFD)])],
          k |-> k + 1, id |-> uuidv4(seed, k + 1)]

ConvertIntoClass(c, unconvertedSAFEs, exitValue, preExitFD, seed) ==
    ConvertSafesAtExit(c.st, unconvertedSAFEs, 1, div(exitValue, preExitFD),
                       preExitFD, c.id, seed, c.k)

\* storage.ts:1648-1728: exitState, the copy of the state with the
\* unconverted SAFEs converted
ExitState(st, exitValue, seed, k) ==
    IF SelectSeq(st.safes, IsOutstanding) = <<>> THEN st
    ELSE ConvertIntoClass(
            WithSafeConversionClass(st, exitValue,
                toDecimal(SumSeq([i \in Indices(st.holdings) |-> st.holdings[i].quantity])),
                seed, k),
            SelectSeq(st.safes, IsOutstanding), exitValue,
            toDecimal(SumSeq([i \in Indices(st.holdings) |-> st.holdings[i].quantity])),
            seed)

\* classTotals[shareClassId] || new Decimal(0)
ClassTotal(exitState, shareClassId) ==
    toDecimal(SumSeq([i \in Indices(exitState.holdings) |->
                        IF exitState.holdings[i].shareClassId = shareClassId
                        THEN exitState.holdings[i].quantity ELSE 0]))

\* holderInvestments[holderId] || new Decimal(0)
HolderInvestment(exitState, holderId) ==
    SumDec([i \in Indices(exitState.holdings) |->
              IF exitState.holdings[i].holderId = holderId
                 /\ exitState.holdings[i].investmentAmount # <<>>
              THEN exitState.holdings[i].investmentAmount[1] ELSE <<0, 1>>])

\* storage.ts:1749-1754
TotalCommonEquivalent(exitState) ==
    SumDec([c \in Indices(exitState.shareClasses) |->
              IF exitState.shareClasses[c].type # "option"
              THEN ClassTotal(exitState, exitState.shareClasses[c].id) ELSE <<0, 1>>])

\* a non-participating holding paid its preference whatever it converts into
PreferredProceedsNeverConverting(prefClass, holderPreference, holderConversion) ==
    IF prefClass.participation = "participating"
    THEN [proceeds |-> holderPreference, method |-> "participating"]
    ELSE [proceeds |-> holderPreference, method |-> "preference"]

\* storage.ts:1768-1783: what a holding of a preferred class is paid, given
\* its preference and its as-converted amount
PreferredProceeds(prefClass, holderPreference, holderConversion) ==
    IF prefClass.participation = "participating"
    THEN [proceeds |-> holderPreference, method |-> "participating"]
    ELSE IF gt(holderPreference, holderConversion)
    THEN [proceeds |-> holderPreference, method |-> "preference"]
    ELSE [proceeds |-> holderConversion, method |-> "conversion"]

\* storage.ts:1766-1791, one holding of prefClass
HoldingPayout(holding, prefClass, exitValue, totalCommonEquivalent) ==
    LET holderShares == toDecimal(holding.quantity)
        pricePerShare == IF prefClass.pricePerShare # <<>> THEN prefClass.pricePerShare
                         ELSE toDecimal(0)
        holderPreference ==
            times(times(holderShares, pricePerShare),
                  toDecimal(IF prefClass.liquidationPreferenceMultiple # 0
                            THEN prefClass.liquidationPreferenceMultiple ELSE 1))
        holderConversion == div(times(exitValue, holderShares), totalCommonEquivalent)
    IN  [holderId |-> holding.holderId, holdingId |-> holding.id,
         shareClassId |-> prefClass.id,
         proceeds |-> PreferredProceeds(prefClass, holderPreference,
                                        holderConversion).proceeds,
         method |-> PreferredProceeds(prefClass, holderPreference,
                                      holderConversion).method]

\* storage.ts:1759-1792, the loop over preferredClasses from index i on: the
\* payments in the order the loop makes them
RECURSIVE PayPreferences(_, _, _, _, _)
PayPreferences(exitState, preferredClasses, i, exitValue, totalCommonEquivalent) ==
    IF i > Len(preferredClasses) THEN <<>>
    ELSE (IF isZero(ClassTotal(exitState, preferredClasses[i].id)) THEN <<>>
          ELSE LET holdersOfClass ==
                       SelectSeq(exitState.holdings,
                                 LAMBDA h : h.shareClassId = preferredClasses[i].id)
               IN  [j \in Indices(holdersOfClass) |->
                      HoldingPayout(holdersOfClass[j], preferredClasses[i],
                                    exitValue, totalCommonEquivalent)])
         \o PayPreferences(exitState, preferredClasses, i + 1, exitValue,
                           totalCommonEquivalent)

\* storage.ts:1795-1798
CommonHoldings(exitState) ==
    SelectSeq(exitState.holdings,
              LAMBDA h : /\ ShareClassOf(exitState, h.shareClassId) # 0
                         /\ exitState.shareClasses[
                               ShareClassOf(exitState, h.shareClassId)].type = "common"
                         /\ ~h.isOption)

\* storage.ts:1800-1818: the payments to the common holdings, the payments
\* of the preferences being `paid`
PayCommon(commonHoldings, exitValue, paid) ==
    LET totalCommon == toDecimal(SumSeq([i \in Indices(commonHoldings) |->
                                           commonHoldings[i].quantity]))
        preferenceTotal == SumDec([i \in Indices(paid) |-> paid[i].proceeds])
        remainingProceeds == maxDec(minus(exitValue, preferenceTotal), toDecimal(0))
    IN  [i \in Indices(commonHoldings) |->
           [holderId |-> commonHoldings[i].holderId,
            holdingId |-> commonHoldings[i].id,
            shareClassId |-> commonHoldings[i].shareClassId,
            proceeds |-> IF isZero(totalCommon) THEN toDecimal(0)
                         ELSE div(times(remainingProceeds,
                                        toDecimal(commonHoldings[i].quantity)),
                                  totalCommon),
            method |-> "common"]]

\* [...new Set(methods)].join(', ')
RECURSIVE JoinUnique(_, _, _)
JoinUnique(methods, i, seen) ==
    IF i > Len(methods) THEN ""
    ELSE IF methods[i] \in seen THEN JoinUnique(methods, i + 1, seen)
    ELSE (IF seen = {} THEN "" ELSE ", ") \o methods[i]
            \o JoinUnique(methods, i + 1, seen \cup {methods[i]})

\* results.sort((a, b) => parseFloat(b.proceeds) - parseFloat(a.proceeds)): stable
SortByProceedsDesc(results) ==
    LET n == Len(results)
        before(i, j) == results[i].proceeds > results[j].proceeds
                        \/ (results[i].proceeds = results[j].proceeds /\ i < j)
        rank(i) == Cardinality({j \in 1..n : j # i /\ before(j, i)})
    IN  [k \in 1..n |-> results[CHOOSE i \in 1..n : rank(i) = k - 1]]

\* storage.ts:1821-1839: the row of a person the distributions map has an
\* entry for; payments is every payment made, in the order made
ResultRow(person, exitState, exitValue, payments) ==
    LET own == SelectSeq(payments, LAMBDA q : q.holderId = person.id)
        proceeds == SumDec([i \in Indices(own) |-> own[i].proceeds])
        investment == HolderInvestment(exitState, person.id)
    IN  [holderId |-> person.id, holderName |-> person.name, holderType |-> person.type,
         proceeds |-> toFixed2(proceeds),
         percentOfExit |-> toFixed2(times(div(proceeds, exitValue), toDecimal(100))),
         investmentAmount |-> investment,
         multiple |-> IF isZero(investment) THEN <<>>
                      ELSE <<toFixed2(div(proceeds, investment))>>,
         method |-> JoinUnique([i \in Indices(own) |-> own[i].method], 1, {})]

\* storage.ts:1821-1847: the rows, sorted, and their total
BuildResults(exitState, exitValue, payments) ==
    LET listed == SelectSeq(exitState.people,
                     LAMBDA person :
                        /\ person.id # ESOP_POOL_HOLDER_ID
                        /\ \E i \in Indices(payments) : payments[i].holderId = person.id)
        results == [i \in Indices(listed) |->
                      ResultRow(listed[i], exitState, exitValue, payments)]
    IN  [exitValuation |-> exitValue,
         distributions |-> SortByProceedsDesc(results),
         totalDistributed |-> SumSeq([i \in Indices(results) |-> results[i].proceeds]),
         payments |-> payments, exitState |-> exitState]

WaterfallAfterPreferences(exitState, exitValue, paid) ==
    BuildResults(exitState, exitValue,
                 paid \o PayCommon(CommonHoldings(exitState), exitValue, paid))

WaterfallOf(exitState, exitValue) ==
    WaterfallAfterPreferences(exitState, exitValue,
        PayPreferences(exitState, SortBySeniorityDesc(PreferredClasses(exitState)), 1,
                       exitValue, TotalCommonEquivalent(exitState)))

\* calculateExitWaterfall(state, exitValuation); besides the ExitWaterfall
\* returned, the fields payments and exitState hold the proceeds and the
\* method computed for each holding (storage.ts:1766-1818) and the local
\* exitState
calculateExitWaterfall(st, exitValuation, seed, k) ==
    WaterfallOf(ExitState(st, toDecimal(exitValuation), seed, k), toDecimal(exitValuation))

(***************************************************************************)
(* Cap table views (storage.ts:1535-1582).                                 *)
(***************************************************************************)
\* storage.ts:1549-1560: byClass, the shares of personHoldings from index i
\* on added under the name of their share class, if the class is found
RECURSIVE CountByClass(_, _, _, _)
CountByClass(st, personHoldings, i, byClass) ==
    IF i > Len(personHoldings) THEN byClass
    ELSE IF ShareClassOf(st, personHoldings[i].shareClassId) = 0
    THEN CountByClass(st, personHoldings, i + 1, byClass)
    ELSE CountByClass(st, personHoldings, i + 1,
            MapSet(byClass,
                   st.shareClasses[ShareClassOf(st, personHoldings[i].shareClassId)].name,
                   MapGetOr0(byClass,
                      st.shareClasses[ShareClassOf(st, personHoldings[i].shareClassId)].name)
                      + personHoldings[i].quantity))

\* storage.ts:1543-1547: the holdings of the person that are not options
PersonHoldings(st, person) ==
    SelectSeq(st.holdings, LAMBDA h : h.holderId = person.id /\ ~h.isOption)

PersonShares(st, person) ==
    SumSeq([i \in Indices(PersonHoldings(st, person)) |->
              PersonHoldings(st, person)[i].quantity])

\* totalShares.div(totalLegal).times(100).toFixed(2), as the number written
OwnershipPercent(totalShares, totalLegal) ==
    IF IsFinite(times(div(toDecimal(totalShares), toDecimal(totalLegal)), toDecimal(100)))
    THEN Rat(toFixed2(times(div(toDecimal(totalShares), toDecimal(totalLegal)),
                            toDecimal(100))), 100)
    ELSE times(div(toDecimal(totalShares), toDecimal(totalLegal)), toDecimal(100))

\* storage.ts:1563-1571
LegalRow(st, person, totalLegal) ==
    [holderId |-> person.id, holderName |-> person.name, holderType |-> person.type,
     totalShares |-> PersonShares(st, person),
     ownershipPercent |-> OwnershipPercent(PersonShares(st, person), totalLegal),
     byClass |-> CountByClass(st, PersonHoldings(st, person), 1, <<>>)]

\* rows.sort((a, b) => b.totalShares - a.totalShares): stable
SortByTotalSharesDesc(rows) ==
    LET n == Len(rows)
        before(i, j) == rows[i].totalShares > rows[j].totalShares
                        \/ (rows[i].totalShares = rows[j].totalShares /\ i < j)
        rank(i) == Cardinality({j \in 1..n : j # i /\ before(j, i)})
    IN  [k \in 1..n |-> rows[CHOOSE i \in 1..n : rank(i) = k - 1]]

\* the people buildLegalCapTable makes a row for (storage.ts:1540-1541, 1562)
LegalHolders(st) ==
    SelectSeq(st.people, LAMBDA person : /\ person.id # ESOP_POOL_HOLDER_ID
                                         /\ PersonShares(st, person) > 0)

buildLegalCapTable(st) ==
    [rows |-> SortByTotalSharesDesc(
                 [i \in Indices(LegalHolders(st)) |->
                    LegalRow(st, LegalHolders(st)[i],
                             calculatePreRoundMetrics(st).legalIssuedShares)]),
     totalShares |-> calculatePreRoundMetrics(st).legalIssuedShares,
     shareClasses |-> SelectSeq(st.shareClasses, LAMBDA sc : sc.type # "option")]

(***************************************************************************)
(* Main entry points.                                                      *)
(***************************************************************************)
\* storage.ts:829-830: newState stamped with the id and the date of the event
\* the clone stamped with the date of the event only
StampDateOnly(c, event) ==
    [c.heap[c.ref] EXCEPT !.asOfDate = event.date]

Stamp(c, event) ==
    [c.heap[c.ref] EXCEPT !.asOfEventId = event.id, !.asOfDate = event.date]

\* storage.ts:832-849: the switch on event.type
Dispatch(newState, event, seed, k) ==
    CASE event.type = "incorporation" -> applyIncorporation(newState, event, seed, k)
      [] event.type = "priced_round" -> applyPricedRound(newState, event, seed, k)
      [] event.type = "safe_issuance" -> applySAFEIssuance(newState, event, seed, k)
      [] event.type = "esop_pool_creation" -> applyESOPPoolCreation(newState, event, seed, k)
      [] event.type = "esop_pool_extension" -> applyESOPPoolExtension(newState, event, seed, k)
      [] event.type = "esop_grant" -> applyESOPGrant(newState, event, seed, k)
      [] event.type = "option_exercise" -> applyOptionExercise(newState, event, seed, k)
      [] OTHER -> Thrown(newState, k, "Unknown event type")

\* the object c.ref as the handler result r leaves it
StoreNewState(c, r) ==
    [heap |-> [c.heap EXCEPT ![c.ref] = r.st], ref |-> c.ref, k |-> r.k, err |-> r.err]

\* applyEvent(state, event) called on the object `ref`: the heap after the
\* call, the reference of newState, the uuid call count and the message of
\* the Error thrown ("" when applyEvent returns newState).
applyEvent(h, ref, event, seed, k) ==
    StoreNewState(cloneState(h, ref),
                  Dispatch(Stamp(cloneState(h, ref), event), event, seed, k))

IdRank(id) == CHOOSE n \in 1..(MaxReplayLen + MaxEvents) : id = "e" \o ToString(n)

\* events of equal date ordered by id instead of by input position
SortByDateThenId(evs) ==
    LET n == Len(evs)
        before(i, j) == evs[i].date < evs[j].date
                        \/ (evs[i].date = evs[j].date
                            /\ IdRank(evs[i].id) < IdRank(evs[j].id))
        rank(i) == Cardinality({j \in 1..n : j # i /\ before(j, i)})
    IN  [k \in 1..n |-> evs[CHOOSE i \in 1..n : rank(i) = k - 1]]

\* [...events].sort((a, b) => new Date(a.date).getTime() - new Date(b.date).getTime()):
\* Array.prototype.sort is stable
SortByDate(evs) ==
    LET n == Len(evs)
        before(i, j) == evs[i].date < evs[j].date
                        \/ (evs[i].date = evs[j].date /\ i < j)
        rank(i) == Cardinality({j \in 1..n : j # i /\ before(j, i)})
    IN  [k \in 1..n |-> evs[CHOOSE i \in 1..n : rank(i) = k - 1]]

\* the state of the replay as a value: every reference replaced by the
\* object it points to
Deref(h, snaps) ==
    [i \in Indices(snaps) |-> [snaps[i] EXCEPT !.state = h[snaps[i].state]]]

state == heap[cur]

\* storage.ts:864-870: the loop variable and the snapshots after the call
\* applyEvent(state, event) whose outcome is a
Record(event, a) ==
    LET s == cloneState(a.heap, a.ref)
    IN  /\ uuidCount' = a.k
        /\ idx' = idx + 1
        /\ error' = a.err
        /\ IF a.err = ""
           THEN /\ heap' = s.heap
                /\ cur' = a.ref
                /\ snapshots' = Append(snapshots,
                                   [eventId |-> event.id, date |-> event.date,
                                    label |-> event.label, state |-> s.ref])
                /\ pc' = "loop"
           ELSE /\ heap' = a.heap
                /\ UNCHANGED <<cur, snapshots>>
                /\ pc' = "thrown"

\* storage.ts:863-871: one iteration of the loop of replayAllEvents, for `event`
LoopBody(event) == Record(event, applyEvent(heap, cur, event, uuidSeed, uuidCount))

(***************************************************************************)
(* The events of the model.                                                *)
(***************************************************************************)
D(n) == toDecimal(n)

Founder(personId, percentage, shares) ==
    [personId |-> personId, name |-> personId, percentage |-> percentage,
     shares |-> shares]

Schedule(cliffMonths, totalMonths, initialCliffPercent) ==
    [cliffMonths |-> cliffMonths, totalMonths |-> totalMonths,
     vestingFrequency |-> "monthly", initialCliffPercent |-> initialCliffPercent]

SafeNote(id, investorId, principal, valuationType, cap, discount) ==
    [id |-> id, investorId |-> investorId, investorName |-> investorId,
     principalAmount |-> D(principal), valuationType |-> valuationType,
     valuationCap |-> cap, discountPercent |-> discount,
     mostFavoredNation |-> FALSE]

RoundData(inputType, amount, cash, investors, shareClassId, safesToConvert, esopTargetPercent) ==
    [valuationInputType |-> inputType, pricePerShare |-> D(amount),
     preMoneyValuation |-> D(amount), postMoneyValuation |-> D(amount),
     totalNewMoney |-> D(cash), investors |-> investors,
     shareClassId |-> shareClassId, createNewShareClass |-> FALSE,
     shareClassName |-> "", liquidationPreference |-> 0, participation |-> "",
     participationCap |-> 0, esopTargetPercent |-> esopTargetPercent,
     safesToConvert |-> safesToConvert]

Investor(personId, amount) ==
    [personId |-> personId, name |-> personId, amount |-> D(amount)]

GrantData(mode, shares, percentage, schedule) ==
    [employeeId |-> "emp1", employeeName |-> "emp1", grantMode |-> mode,
     shares |-> shares, percentage |-> percentage, strikePrice |-> <<D(1)>>,
     vestingStartDate |-> NullDate, vestingScheduleId |-> "",
     vestingSchedule |-> schedule]

Payload(type, date, label, data) ==
    [type |-> type, date |-> date, label |-> label, data |-> data]

Incorporations ==
    { Payload("incorporation", 0, "inc_pct",
         [founderInputMode |-> "percentage", totalIssuedShares |-> 10,
          pricePerShare |-> <<>>,
          founders |-> <<Founder("f1", 60, 0), Founder("f2", 40, 0)>>,
          esopPool |-> <<[inputMode |-> "shares", shares |-> 4, percentage |-> 0]>>]),
      Payload("incorporation", 0, "inc_shares",
         [founderInputMode |-> "shares", totalIssuedShares |-> 5,
          pricePerShare |-> <<>>,
          founders |-> <<Founder("f1", 0, 5)>>,
          esopPool |-> <<>>]) }

SafeIssuances ==
    { Payload("safe_issuance", 0, "safe_s1",
         [safes |-> <<SafeNote("s1", "inv1", 4, "pre_money", <<>>, 0)>>]),
      Payload("safe_issuance", 0, "safe_cap",
         [safes |-> <<SafeNote("", "inv1", 4, "pre_money", <<D(7)>>, 20)>>]) }

PricedRounds ==
    { Payload("priced_round", 0, "round_pps",
         RoundData("price_per_share", 2, 4, <<Investor("inv2", 4)>>, "", <<>>, 0)),
      Payload("priced_round", 0, "round_named",
         RoundData("price_per_share", 1, 3,
                   <<Investor("inv2", 2), Investor("inv3", 1)>>, "sc-x",
                   << <<"s1", "s1">> >>, 50)),
      Payload("priced_round", 0, "round_pre",
         RoundData("pre_money", 14, 2, <<Investor("inv2", 2)>>, "", <<>>, 0)) }

PoolCreations ==
    { Payload("esop_pool_creation", 0, "pool_shares",
         [inputMode |-> "shares", shares |-> 4, percentage |-> 0]),
      Payload("esop_pool_creation", 0, "pool_pct",
         [inputMode |-> "percentage", shares |-> 0, percentage |-> 50]) }

PoolExtensions ==
    { Payload("esop_pool_extension", 0, "ext_50", [targetPercent |-> 50]) }

Grants ==
    { Payload("esop_grant", 0, "grant_2", GrantData("shares", 2, 0, <<>>)),
      Payload("esop_grant", 0, "grant_vest",
         GrantData("shares", 4, 0, <<Schedule(1, 2, 50)>>)),
      \* a schedule that vests everything at the cliff
      Payload("esop_grant", 0, "grant_cliff",
         GrantData("shares", 2, 0, <<Schedule(1, 1, 50)>>)),
      Payload("esop_grant", 0, "grant_big", GrantData("shares", 9, 0, <<>>)),
      Payload("esop_grant", 0, "grant_pct150", GrantData("percentage", 0, 150, <<>>)) }

Exercises ==
    { Payload("option_exercise", d, "ex_" \o ToString(n),
              [employeeId |-> "emp1", shares |-> n]) :
        d \in {0, 31}, n \in {1, 2, 3} }

\* events that carry a target ESOP percentage of 100% or more
FullPercentEvents ==
    { Payload("incorporation", 0, "inc_pool100",
         [founderInputMode |-> "shares", totalIssuedShares |-> 5,
          pricePerShare |-> <<>>,
          founders |-> <<Founder("f1", 0, 5)>>,
          esopPool |-> <<[inputMode |-> "percentage", shares |-> 0, percentage |-> 100]>>]),
      Payload("esop_pool_creation", 0, "pool_pct100",
         [inputMode |-> "percentage", shares |-> 0, percentage |-> 100]),
      Payload("esop_pool_creation", 0, "pool_pct150",
         [inputMode |-> "percentage", shares |-> 0, percentage |-> 150]),
      Payload("esop_pool_extension", 0, "ext_150", [targetPercent |-> 150]),
      Payload("priced_round", 0, "round_esop150",
         RoundData("price_per_share", 1, 2, <<Investor("inv2", 2)>>, "", <<>>, 150)) }

Universe ==
    Incorporations \cup SafeIssuances \cup PricedRounds \cup PoolCreations
        \cup PoolExtensions \cup Grants \cup Exercises

\* an event of the caller's list: a payload under an event id
Event(id, payload) ==
    [id |-> id, type |-> payload.type, date |-> payload.date,
     label |-> payload.label, data |-> payload.data]

IdleAlloc == [total |-> 0, recipients |-> <<>>, result |-> <<>>]

IdleVest == <<>>

IdlePricing == <<>>

\* no table and no request of the edge functions
IdleDb == [companies |-> {}, members |-> {}, removals |-> <<>>, creations |-> <<>>]

(***************************************************************************)
(* Spec: the loop of replayAllEvents over every date-ordered event list,   *)
(* the list being drawn one event at a time.                               *)
(***************************************************************************)
Init ==
    /\ heap = <<createInitialState("c1")>>
    /\ cur = 1
    /\ snapshots = <<>>
    /\ sortedEvents = <<>>
    /\ events = <<>>
    /\ idx = 0
    /\ pc = "loop"
    /\ error = ""
    /\ uuidSeed = 1
    /\ uuidCount = 0
    /\ firstRun = <<>>
    /\ alloc = IdleAlloc
    /\ waterfall = <<>>
    /\ vest = IdleVest
    /\ db = IdleDb
    /\ pricing = IdlePricing

\* the caller's list, sorted, can continue with `payload`
Ordered(payload) ==
    /\ pc = "loop"
    /\ idx < MaxEvents
    /\ idx = Len(sortedEvents)
    /\ idx > 0 => sortedEvents[idx].date <= payload.date

\* the list continues with `payload`, and the loop handles it
Feed(payload) ==
    LET event == Event("e" \o ToString(idx + 1), payload)
    IN  /\ sortedEvents' = Append(sortedEvents, event)
        /\ events' = Append(events, event)
        /\ LoopBody(event)
        /\ UNCHANGED <<db, pricing, uuidSeed, firstRun, alloc, waterfall, vest>>

Incorporation == \E p \in Incorporations : Ordered(p) /\ Feed(p)

PricedRound == \E p \in PricedRounds : Ordered(p) /\ Feed(p)

SAFEIssuance == \E p \in SafeIssuances : Ordered(p) /\ Feed(p)

ESOPPoolCreation == \E p \in PoolCreations : Ordered(p) /\ Feed(p)

ESOPPoolExtension == \E p \in PoolExtensions : Ordered(p) /\ Feed(p)

ESOPGrant == \E p \in Grants : Ordered(p) /\ Feed(p)

OptionExercise == \E p \in Exercises : Ordered(p) /\ Feed(p)

Next ==
    \/ Incorporation
    \/ PricedRound
    \/ SAFEIssuance
    \/ ESOPPoolCreation
    \/ ESOPPoolExtension
    \/ ESOPGrant
    \/ OptionExercise

Spec == Init /\ [][Next]_vars

(***************************************************************************)
(* SpecPercent: the same loop over lists that mix ordinary events with     *)
(* events whose target ESOP percentage is 100% or more.                    *)
(***************************************************************************)
PercentLabels == {"inc_pct", "inc_shares", "pool_shares", "grant_2"}

PercentPayloads == FullPercentEvents \cup {u \in Universe : u.label \in PercentLabels}

NextPercent == \E p \in PercentPayloads : Ordered(p) /\ Feed(p)

SpecPercent == Init /\ [][NextPercent]_vars

(***************************************************************************)
(* SpecExit: the exit planner replays a list and calls                     *)
(* calculateExitWaterfall on the final state (ExitPlanner.tsx:61-101).      *)
(***************************************************************************)
MaxExitEvents == 3

ExitLabels == {"inc_shares", "inc_pct", "safe_s1", "safe_cap", "round_pps"}

ExitRounds ==
    { Payload("priced_round", 0, "round_part",
         [RoundData("price_per_share", 1, 3, <<Investor("inv3", 3)>>, "", <<>>, 0)
          EXCEPT !.participation = "participating"]),
      Payload("priced_round", 0, "round_capped",
         [RoundData("price_per_share", 1, 2, <<Investor("inv4", 2)>>, "", <<>>, 0)
          EXCEPT !.participation = "capped_participating", !.participationCap = 2]),
      Payload("priced_round", 0, "round_2x",
         [RoundData("price_per_share", 2, 4, <<Investor("inv2", 4)>>, "", <<>>, 0)
          EXCEPT !.liquidationPreference = 2]) }

ExitPayloads == ExitRounds \cup {u \in Universe : u.label \in ExitLabels}

\* Number(exitValuation) > 0 (ExitPlanner.tsx:79)
ExitValuations == {1, 2, 5, 20}

\* the number of uuidv4() calls of calculateExitWaterfall(st, ...)
ExitUuidCalls(st) ==
    IF SelectSeq(st.safes, IsOutstanding) = <<>> THEN 0
    ELSE Len(SelectSeq(st.safes, IsOutstanding))
            + (IF Len(PreferredClasses(st)) > 0 THEN 0 ELSE 1)

ExitEvent ==
    \E p \in ExitPayloads :
        /\ waterfall = <<>>
        /\ idx < MaxExitEvents
        /\ Ordered(p)
        /\ Feed(p)

\* ExitPlanner.tsx:78-101: handleCalculate on the state replayed
ExitScenario ==
    /\ pc = "loop"
    /\ idx >= 1
    /\ waterfall = <<>>
    /\ \E v \in ExitValuations :
          waterfall' = <<calculateExitWaterfall(state, v, uuidSeed, uuidCount)>>
    /\ uuidCount' = uuidCount + ExitUuidCalls(state)
    /\ UNCHANGED <<db, pricing, heap, cur, snapshots, sortedEvents, idx, pc, error, uuidSeed,
                   events, firstRun, alloc, vest>>

NextExit == ExitEvent \/ ExitScenario

SpecExit == Init /\ [][NextExit]_vars

(***************************************************************************)
(* SpecReplay: replayAllEvents called on a caller's event list in any      *)
(* order, and called a second time on the same list.                       *)
(***************************************************************************)
ReplayLabels == {"inc_pct", "safe_cap", "round_pps", "grant_2"}

ReplayDates == {0, 31}

ReplayPayloads ==
    {[p EXCEPT !.date = d] : p \in {u \in Universe : u.label \in ReplayLabels},
                             d \in ReplayDates}

\* the streams uuidv4 may draw from in a run
Seeds == {1, 2}

\* event ids are unique in a list; they follow the list order or its reverse
EventLists ==
    UNION {{[i \in 1..n |-> Event("e" \o ToString(IF asc THEN i ELSE n + 1 - i), l[i])] :
              l \in [1..n -> ReplayPayloads], asc \in BOOLEAN} :
           n \in 0..MaxReplayLen}

InitReplay ==
    /\ events \in EventLists
    /\ heap = <<>>
    /\ cur = 0
    /\ snapshots = <<>>
    /\ sortedEvents = <<>>
    /\ idx = 0
    /\ pc = "start"
    /\ error = ""
    /\ uuidSeed = 1
    /\ uuidCount = 0
    /\ firstRun = <<>>
    /\ alloc = IdleAlloc
    /\ waterfall = <<>>
    /\ vest = IdleVest
    /\ db = IdleDb
    /\ pricing = IdlePricing

\* storage.ts:856-861
Start ==
    /\ pc = "start"
    /\ sortedEvents' = SortByDate(events)
    /\ heap' = Append(heap, createInitialState("c1"))
    /\ cur' = Len(heap) + 1
    /\ snapshots' = <<>>
    /\ idx' = 0
    /\ pc' = "loop"
    /\ UNCHANGED <<db, pricing, error, uuidSeed, uuidCount, events, firstRun, alloc, waterfall, vest>>

\* storage.ts:863-871
Iterate ==
    /\ pc = "loop"
    /\ idx < Len(sortedEvents)
    /\ LoopBody(sortedEvents[idx + 1])
    /\ UNCHANGED <<db, pricing, sortedEvents, events, uuidSeed, firstRun, alloc, waterfall, vest>>

\* storage.ts:873
Return ==
    /\ pc = "loop"
    /\ idx = Len(sortedEvents)
    /\ pc' = "done"
    /\ UNCHANGED <<db, pricing, heap, cur, snapshots, sortedEvents, idx, error, uuidSeed,
                   uuidCount, events, firstRun, alloc, waterfall, vest>>

\* what replayAllEvents returns, as a value
Result == [finalState |-> heap[cur], snapshots |-> Deref(heap, snapshots)]

\* the caller keeps the result and calls replayAllEvents(companyId, events) again
ReplayAgain ==
    /\ pc = "done"
    /\ firstRun = <<>>
    /\ firstRun' = <<Result>>
    /\ pc' = "start"
    /\ uuidSeed' \in Seeds
    /\ uuidCount' = 0
    /\ UNCHANGED <<db, pricing, heap, cur, snapshots, sortedEvents, idx, error, events, alloc, waterfall, vest>>

NextReplay == Start \/ Iterate \/ Return \/ ReplayAgain

SpecReplay == InitReplay /\ [][NextReplay]_vars

(***************************************************************************)
(* SpecAlloc: distributeSharesByLargestRemainder on drawn inputs.          *)
(***************************************************************************)
Proportions == {D(0), Rat(1, 4), Rat(1, 3), Rat(1, 2), Rat(2, 3), D(1)}

AllocInputs ==
    {[total |-> t,
      recipients |-> [i \in DOMAIN ps |->
                        [id |-> "r" \o ToString(i), proportion |-> ps[i]]],
      result |-> <<>>] :
        t \in 0..MaxTotal,
        ps \in UNION {[1..n -> Proportions] : n \in 0..MaxRecipients}}

InitAlloc ==
    /\ heap = <<createInitialState("c1")>>
    /\ cur = 1
    /\ snapshots = <<>>
    /\ sortedEvents = <<>>
    /\ events = <<>>
    /\ idx = 0
    /\ pc = "loop"
    /\ error = ""
    /\ uuidSeed = 1
    /\ uuidCount = 0
    /\ firstRun = <<>>
    /\ alloc \in AllocInputs
    /\ waterfall = <<>>
    /\ vest = IdleVest
    /\ db = IdleDb
    /\ pricing = IdlePricing

Distribute ==
    /\ alloc.result = <<>>
    /\ alloc' = [alloc EXCEPT !.result =
                    <<distributeSharesByLargestRemainder(alloc.total, alloc.recipients)>>]
    /\ UNCHANGED <<db, pricing, heap, cur, snapshots, sortedEvents, idx, pc, error, uuidSeed,
                   uuidCount, events, firstRun, waterfall, vest>>

NextAlloc == Distribute

SpecAlloc == InitAlloc /\ [][NextAlloc]_vars

(***************************************************************************)
(* SpecSafe: SAFEs with and without a cap and a discount, converted by a   *)
(* priced round.                                                           *)
(***************************************************************************)
MaxSafeEvents == 4

SafeLabels == {"inc_shares", "inc_pct", "safe_s1", "safe_cap", "round_pps", "round_pre"}

\* Scenario B in units of 100,000: 100 fully diluted shares before the
\* round, a SAFE of 5 with a cap of 50 and a 20% discount, a round at 1.00
ConversionEvents ==
    { Payload("incorporation", 0, "inc_100",
         [founderInputMode |-> "shares", totalIssuedShares |-> 100,
          pricePerShare |-> <<>>,
          founders |-> <<Founder("f1", 0, 100)>>,
          esopPool |-> <<>>]),
      Payload("safe_issuance", 0, "safe_b",
         [safes |-> <<SafeNote("", "inv1", 5, "post_money", <<D(50)>>, 20)>>]),
      Payload("safe_issuance", 0, "safe_caponly",
         [safes |-> <<SafeNote("", "inv3", 4, "pre_money", <<D(7)>>, 0)>>]),
      Payload("safe_issuance", 0, "safe_disc",
         [safes |-> <<SafeNote("", "inv4", 3, "pre_money", <<>>, 50)>>]),
      Payload("priced_round", 0, "round_one",
         RoundData("price_per_share", 1, 2, <<Investor("inv2", 2)>>, "", <<>>, 0)) }

SafePayloads == ConversionEvents \cup {u \in Universe : u.label \in SafeLabels}

SafeEvent ==
    \E p \in SafePayloads :
        /\ idx < MaxSafeEvents
        /\ Ordered(p)
        /\ Feed(p)

NextSafe == SafeEvent

SpecSafe == Init /\ [][NextSafe]_vars

(***************************************************************************)
(* SpecFound: incorporations with founders given by percentage and by      *)
(* share count.                                                            *)
(***************************************************************************)
MaxFoundEvents == 3

FoundLabels == {"inc_pct", "inc_shares"}

FounderEvents ==
    { \* Scenario A in units of 1,000,000 shares
      Payload("incorporation", 0, "inc_a",
         [founderInputMode |-> "percentage", totalIssuedShares |-> 10,
          pricePerShare |-> <<>>,
          founders |-> <<Founder("f1", 60, 0), Founder("f2", 40, 0)>>,
          esopPool |-> <<>>]),
      Payload("incorporation", 0, "inc_thirds",
         [founderInputMode |-> "percentage", totalIssuedShares |-> 10,
          pricePerShare |-> <<>>,
          founders |-> <<Founder("f1", 33, 0), Founder("f2", 33, 0),
                         Founder("f3", 34, 0)>>,
          esopPool |-> <<>>]),
      \* the form warns about, and submits, percentages that do not add up
      \* to 100 (CompanySettings.tsx:931-933)
      Payload("incorporation", 0, "inc_short",
         [founderInputMode |-> "percentage", totalIssuedShares |-> 10,
          pricePerShare |-> <<>>,
          founders |-> <<Founder("f1", 40, 0), Founder("f2", 30, 0)>>,
          esopPool |-> <<>>]),
      \* a founder added at 50% next to the form's first founder at 100%
      Payload("incorporation", 0, "inc_over",
         [founderInputMode |-> "percentage", totalIssuedShares |-> 10,
          pricePerShare |-> <<>>,
          founders |-> <<Founder("f1", 100, 0), Founder("f2", 50, 0)>>,
          esopPool |-> <<>>]),
      Payload("incorporation", 0, "inc_counts",
         [founderInputMode |-> "shares", totalIssuedShares |-> 10,
          pricePerShare |-> <<>>,
          founders |-> <<Founder("f1", 0, 3), Founder("f2", 0, 4)>>,
          esopPool |-> <<>>]) }

FoundPayloads == FounderEvents \cup {u \in Universe : u.label \in FoundLabels}

FoundEvent ==
    \E p \in FoundPayloads :
        /\ idx < MaxFoundEvents
        /\ Ordered(p)
        /\ Feed(p)

NextFound == FoundEvent

SpecFound == Init /\ [][NextFound]_vars

(***************************************************************************)
(* SpecPool: the ESOP pool created and extended on incorporated states.    *)
(***************************************************************************)
MaxPoolEvents == 4

PoolLabels == {"inc_pct", "inc_shares", "pool_shares", "pool_pct", "ext_50"}

PoolEvents ==
    { \* Scenario C in units of 1,000,000 shares: 10% on a base of 9
      Payload("incorporation", 0, "inc_9",
         [founderInputMode |-> "shares", totalIssuedShares |-> 9,
          pricePerShare |-> <<>>,
          founders |-> <<Founder("f1", 0, 9)>>,
          esopPool |-> <<>>]),
      Payload("esop_pool_creation", 0, "pool_pct10",
         [inputMode |-> "percentage", shares |-> 0, percentage |-> 10]),
      Payload("esop_pool_extension", 0, "ext_20", [targetPercent |-> 20]) }

PoolPayloads == PoolEvents \cup {u \in Universe : u.label \in PoolLabels}

PoolEvent ==
    \E p \in PoolPayloads :
        /\ idx < MaxPoolEvents
        /\ Ordered(p)
        /\ Feed(p)

NextPool == PoolEvent

SpecPool == Init /\ [][NextPool]_vars

(***************************************************************************)
(* SpecGrant: options granted from the pool of one incorporation and       *)
(* exercised.                                                              *)
(***************************************************************************)
MaxGrantEvents == 4

GrantLabels == {"inc_pct", "grant_2", "grant_vest", "ex_1", "ex_2"}

GrantEvents ==
    { Payload("esop_grant", 0, "grant_emp2",
         [GrantData("shares", 1, 0, <<>>) EXCEPT !.employeeId = "emp2",
                                                  !.employeeName = "emp2"]),
      \* a founder, who holds common shares already, as grantee
      Payload("esop_grant", 0, "grant_f1",
         [GrantData("shares", 2, 0, <<>>) EXCEPT !.employeeId = "f1",
                                                  !.employeeName = "f1"]),
      Payload("option_exercise", 0, "exf_1", [employeeId |-> "f1", shares |-> 1]) }

GrantPayloads == GrantEvents \cup {u \in Universe : u.label \in GrantLabels}

GrantEvent ==
    \E p \in GrantPayloads :
        /\ idx < MaxGrantEvents
        /\ Ordered(p)
        /\ Feed(p)

NextGrant == GrantEvent

SpecGrant == Init /\ [][NextGrant]_vars

(***************************************************************************)
(* SpecIssue: SAFE issuances of one and of several notes, to new and to    *)
(* known investors.                                                        *)
(***************************************************************************)
MaxIssueEvents == 4

IssueLabels == {"inc_shares", "inc_pct", "safe_s1", "safe_cap", "round_pps"}

IssueEvents ==
    { \* a new investor and a founder in one event
      Payload("safe_issuance", 0, "safe_pair",
         [safes |-> <<SafeNote("", "inv3", 2, "pre_money", <<>>, 0),
                      SafeNote("", "f1", 3, "post_money", <<D(7)>>, 0)>>]),
      \* two notes of one new investor
      Payload("safe_issuance", 1, "safe_twice",
         [safes |-> <<SafeNote("", "inv4", 2, "pre_money", <<D(7)>>, 0),
                      SafeNote("", "inv4", 1, "pre_money", <<>>, 20)>>]),
      Payload("safe_issuance", 1, "safe_none", [safes |-> <<>>]) }

IssueEvent ==
    \E p \in IssueEvents \cup {u \in Universe : u.label \in IssueLabels} :
        /\ idx < MaxIssueEvents
        /\ Ordered(p)
        /\ Feed(p)

NextIssue == IssueEvent

SpecIssue == Init /\ [][NextIssue]_vars

(***************************************************************************)
(* SpecCalc: handleCalculate of the exit planner called more than once on  *)
(* the memoized state, calculateExitWaterfall working on the heap.         *)
(***************************************************************************)
MaxCalcEvents == 3

MaxCalculations == 2

CalcLabels == {"inc_shares", "safe_s1", "safe_cap", "round_pps"}

CalcEvent ==
    \E p \in {u \in Universe : u.label \in CalcLabels} :
        /\ waterfall = <<>>
        /\ idx < MaxCalcEvents
        /\ Ordered(p)
        /\ Feed(p)

\* exitState built on the state it is given instead of on a copy
CloneForExitAliasing(h, ref) == [heap |-> h, ref |-> ref]

\* storage.ts:1649-1655: exitState, a new object with new arrays of the
\* holdings (copied), people, share classes and SAFEs of the state
CloneForExit(h, ref) == [heap |-> Append(h, h[ref]), ref |-> Len(h) + 1]

\* ExitPlanner.tsx:78-101 with storage.ts:1644-1848: calculateExitWaterfall
\* builds exitState on the heap, converts the outstanding SAFEs in it and
\* returns the waterfall
Calculate ==
    /\ pc = "loop"
    /\ idx >= 1
    /\ Len(waterfall) < MaxCalculations
    /\ \E v \in ExitValuations :
          LET c == CloneForExit(heap, cur)
              w == calculateExitWaterfall(c.heap[c.ref], v, uuidSeed, uuidCount)
          IN  /\ heap' = [c.heap EXCEPT ![c.ref] = w.exitState]
              /\ waterfall' = Append(waterfall, w)
    /\ uuidCount' = uuidCount + ExitUuidCalls(state)
    /\ UNCHANGED <<db, pricing, cur, snapshots, sortedEvents, idx, pc, error, uuidSeed,
                   events, firstRun, alloc, vest>>

NextCalc == CalcEvent \/ Calculate

SpecCalc == Init /\ [][NextCalc]_vars

(***************************************************************************)
(* SpecMembers: concurrent requests to the remove-member edge function     *)
(* (get-company-members/index.ts:128-219) for one company.  Every await of *)
(* a query is one step; the steps of different requests interleave.        *)
(***************************************************************************)
MaxRemovals == 2

Users == {"ua", "ub"}

\* every variable but db
ReplayVars == <<heap, cur, snapshots, sortedEvents, idx, pc, error, uuidSeed, uuidCount, events, firstRun, alloc, waterfall, vest, pricing>>

\* a request that has not been sent
IdleRequest == [pc |-> "idle", caller |-> "", target |-> "", count |-> 0, status |-> 0]

InitMembers ==
    /\ heap = <<createInitialState("c1")>>
    /\ cur = 1
    /\ snapshots = <<>>
    /\ sortedEvents = <<>>
    /\ events = <<>>
    /\ idx = 0
    /\ pc = "loop"
    /\ error = ""
    /\ uuidSeed = 1
    /\ uuidCount = 0
    /\ firstRun = <<>>
    /\ alloc = IdleAlloc
    /\ waterfall = <<>>
    /\ pricing = IdlePricing
    /\ vest = IdleVest
    /\ \E ms \in (SUBSET Users) \ {{}} :
          db = [companies |-> {"c1"}, members |-> {<<"c1", u>> : u \in ms},
                removals |-> [r \in 1..MaxRemovals |-> IdleRequest],
                creations |-> <<>>]

\* the rows of company_members of a company
MembersOf(d, companyId) == {m \in d.members : m[1] = companyId}

\* an authenticated user sends { company_id: 'c1', user_id: target }
\* (storage.ts:587-603, index.ts:153-171)
RemoveRequest(r) ==
    /\ db.removals[r].pc = "idle"
    /\ \E caller \in Users, target \in Users :
          db' = [db EXCEPT !.removals[r] =
                    [@ EXCEPT !.pc = "membership", !.caller = caller, !.target = target]]
    /\ UNCHANGED ReplayVars

\* index.ts:173-185: the caller's row is selected; 403 if there is none
CheckCallerMembership(r) ==
    /\ db.removals[r].pc = "membership"
    /\ db' = [db EXCEPT !.removals[r] =
                IF <<"c1", db.removals[r].caller>> \in db.members
                THEN [@ EXCEPT !.pc = "count"]
                ELSE [@ EXCEPT !.pc = "done", !.status = 403]]
    /\ UNCHANGED ReplayVars

\* index.ts:187-198: the rows of the company are counted; 400 'Cannot
\* remove the last member' if (count && count <= 1)
CheckMemberCount(r) ==
    /\ db.removals[r].pc = "count"
    /\ LET count == Cardinality(MembersOf(db, "c1"))
       IN  db' = [db EXCEPT !.removals[r] =
                    IF count # 0 /\ count <= 1
                    THEN [@ EXCEPT !.pc = "done", !.status = 400, !.count = count]
                    ELSE [@ EXCEPT !.pc = "delete", !.count = count]]
    /\ UNCHANGED ReplayVars

\* index.ts:200-217: the row of user_id is deleted; 500 if the delete
\* returns an error, 200 otherwise
DeleteMember(d, r, failed) ==
    [d EXCEPT !.members = IF failed THEN @ ELSE @ \ {<<"c1", d.removals[r].target>>},
              !.removals[r] = [@ EXCEPT !.pc = "done",
                                        !.status = IF failed THEN 500 ELSE 200]]

RemoveTheMember(r) ==
    /\ db.removals[r].pc = "delete"
    /\ \E failed \in BOOLEAN : db' = DeleteMember(db, r, failed)
    /\ UNCHANGED ReplayVars

NextMembers ==
    \E r \in 1..MaxRemovals :
        \/ RemoveRequest(r)
        \/ CheckCallerMembership(r)
        \/ CheckMemberCount(r)
        \/ RemoveTheMember(r)

SpecMembers == InitMembers /\ [][NextMembers]_vars

(***************************************************************************)
(* SpecCreate: requests to the create-company edge function                *)
(* (create-company/index.ts:16-125).  Every await of a query is one step,  *)
(* and every query either succeeds or returns an error.                    *)
(***************************************************************************)
MaxCreations == 2

\* a create-company request that has not been sent
IdleCreation == [pc |-> "idle", user |-> "", company |-> "", status |-> 0]

InitCreate ==
    /\ heap = <<createInitialState("c1")>>
    /\ cur = 1
    /\ snapshots = <<>>
    /\ sortedEvents = <<>>
    /\ events = <<>>
    /\ idx = 0
    /\ pc = "loop"
    /\ error = ""
    /\ uuidSeed = 1
    /\ uuidCount = 0
    /\ firstRun = <<>>
    /\ alloc = IdleAlloc
    /\ waterfall = <<>>
    /\ pricing = IdlePricing
    /\ vest = IdleVest
    /\ db = [companies |-> {}, members |-> {}, removals |-> <<>>,
             creations |-> [r \in 1..MaxCreations |-> IdleCreation]]

\* storage.ts:209-225, index.ts:46-63: an authenticated user posts a body;
\* 400 if the name is blank
CreateRequest(r) ==
    /\ db.creations[r].pc = "idle"
    /\ \E user \in Users, named \in BOOLEAN :
          db' = [db EXCEPT !.creations[r] =
                    IF named THEN [@ EXCEPT !.pc = "company", !.user = user]
                    ELSE [@ EXCEPT !.pc = "done", !.user = user, !.status = 400]]
    /\ UNCHANGED ReplayVars

\* index.ts:65-84: the company row is inserted under a new id; 500 if the
\* insert returns an error
InsertCompany(r) ==
    /\ db.creations[r].pc = "company"
    /\ \E failed \in BOOLEAN :
          db' = IF failed
                THEN [db EXCEPT !.creations[r] = [@ EXCEPT !.pc = "done", !.status = 500]]
                ELSE [db EXCEPT !.companies = @ \cup {"n" \o ToString(r)},
                                !.creations[r] = [@ EXCEPT !.pc = "member",
                                                           !.company = "n" \o ToString(r)]]
    /\ UNCHANGED ReplayVars

\* index.ts:86-94, 105-117: the membership row is inserted; 201 with the
\* company if the insert succeeds
AddMember(d, r, failed) ==
    IF failed THEN [d EXCEPT !.creations[r] = [@ EXCEPT !.pc = "rollback"]]
    ELSE [d EXCEPT !.members = @ \cup {<<d.creations[r].company, d.creations[r].user>>},
                   !.creations[r] = [@ EXCEPT !.pc = "done", !.status = 201]]

InsertMember(r) ==
    /\ db.creations[r].pc = "member"
    /\ \E failed \in BOOLEAN : db' = AddMember(db, r, failed)
    /\ UNCHANGED ReplayVars

\* index.ts:95-103: the company row is deleted and 500 is returned; the
\* result of the delete is not looked at
RollbackCompany(r) ==
    /\ db.creations[r].pc = "rollback"
    /\ \E failed \in BOOLEAN :
          db' = [db EXCEPT !.companies = IF failed THEN @
                                         ELSE @ \ {db.creations[r].company},
                           !.creations[r] = [@ EXCEPT !.pc = "done", !.status = 500]]
    /\ UNCHANGED ReplayVars

NextCreate ==
    \E r \in 1..MaxCreations :
        \/ CreateRequest(r)
        \/ InsertCompany(r)
        \/ InsertMember(r)
        \/ RollbackCompany(r)

SpecCreate == InitCreate /\ [][NextCreate]_vars

(***************************************************************************)
(* SpecPrice: the price iteration of a post-money priced round             *)
(* (storage.ts:1008-1057), one step for every pass of the loop.            *)
(***************************************************************************)
\* a SAFE of the round with a discount and no cap
DiscountSafe(principal, discount) ==
    SafeNote("s1", "inv1", principal, "pre_money", <<>>, discount)

\* a post-money SAFE of the round with a valuation cap
CappedSafe(principal, cap) ==
    SafeNote("s1", "inv1", principal, "post_money", <<D(cap)>>, 0)

\* preRoundFD, postMoneyValuation, totalNewMoney and the converting SAFEs
PriceInputs ==
    { <<10, 20, 0, <<>>>>, <<10, 20, 1, <<>>>>, <<10, 40, 0, <<>>>>, <<20, 40, 1, <<>>>>,
      <<10, 20, 1, <<DiscountSafe(1, 0)>>>>, <<20, 20, 1, <<DiscountSafe(1, 0)>>>>,
      <<10, 40, 0, <<DiscountSafe(1, 0)>>>>, <<20, 40, 0, <<DiscountSafe(1, 0)>>>>,
      <<10, 20, 0, <<DiscountSafe(2, 50)>>>>, <<10, 20, 1, <<DiscountSafe(2, 50)>>>>,
      <<10, 40, 1, <<DiscountSafe(2, 50)>>>>, <<20, 20, 0, <<DiscountSafe(2, 50)>>>>,
      <<10, 20, 0, <<DiscountSafe(5, 0)>>>>, <<10, 40, 0, <<DiscountSafe(5, 0)>>>>,
      <<20, 20, 0, <<DiscountSafe(5, 0)>>>>,
      <<10, 20, 0, <<DiscountSafe(1, 20)>>>>, <<20, 40, 0, <<DiscountSafe(1, 20)>>>>,
      <<100, 20, 5, <<DiscountSafe(5, 0)>>>>, <<100, 10, 1, <<DiscountSafe(2, 50)>>>>,
      <<1, 10, 1, <<DiscountSafe(2, 50)>>>>, <<1, 10, 0, <<DiscountSafe(5, 0)>>>>,
      <<10, 10, 0, <<CappedSafe(1, 10)>>>>, <<10, 5, 1, <<CappedSafe(1, 5)>>>>,
      <<10, 5, 2, <<CappedSafe(1, 5)>>>> }

\* storage.ts:1008-1010: the locals on entry to the loop; prices is every
\* newPrice computed so far
PricingOf(in) ==
    [pc |-> "loop", iter |-> 0,
     preRoundFD |-> toDecimal(in[1]),
     postMoneyValuation |-> toDecimal(in[2]),
     totalCashInvestment |-> toDecimal(in[3]),
     convertingSafes |-> in[4],
     initialPrice |-> div(minus(toDecimal(in[2]), toDecimal(in[3])), toDecimal(in[1])),
     pricePerShare |-> div(minus(toDecimal(in[2]), toDecimal(in[3])), toDecimal(in[1])),
     prices |-> <<>>]

InitPrice ==
    /\ heap = <<createInitialState("c1")>>
    /\ cur = 1
    /\ snapshots = <<>>
    /\ sortedEvents = <<>>
    /\ events = <<>>
    /\ idx = 0
    /\ pc = "loop"
    /\ error = ""
    /\ uuidSeed = 1
    /\ uuidCount = 0
    /\ firstRun = <<>>
    /\ alloc = IdleAlloc
    /\ waterfall = <<>>
    /\ vest = IdleVest
    /\ db = IdleDb
    /\ \E in \in PriceInputs : pricing = PricingOf(in)

\* storage.ts:1014-1048: newPrice of one pass at pricePerShare
NewPrice(pr) ==
    div(pr.postMoneyValuation,
        plus(plus(pr.preRoundFD, div(pr.totalCashInvestment, pr.pricePerShare)),
             SafeSharesAtPrice(pr.convertingSafes, 1, <<0, 1>>, pr.pricePerShare,
                               pr.preRoundFD,
                               div(pr.totalCashInvestment, pr.pricePerShare))))

\* the loop left on convergence with the price of the pass before
PassKeepingPrice(pr, newPrice) ==
    IF lt(absDec(minus(newPrice, pr.pricePerShare)), PriceTolerance)
    THEN [pr EXCEPT !.pc = "done", !.prices = Append(@, newPrice)]
    ELSE [pr EXCEPT !.pricePerShare = newPrice, !.iter = @ + 1,
                    !.prices = Append(@, newPrice)]

\* storage.ts:1050-1055: the end of one pass, newPrice computed
Pass(pr, newPrice) ==
    IF lt(absDec(minus(newPrice, pr.pricePerShare)), PriceTolerance)
    THEN [pr EXCEPT !.pricePerShare = newPrice, !.pc = "done",
                    !.prices = Append(@, newPrice)]
    ELSE [pr EXCEPT !.pricePerShare = newPrice, !.iter = @ + 1,
                    !.prices = Append(@, newPrice)]

\* one pass of `for (let iter = 0; iter < 10; iter++)`
PricePass ==
    /\ pricing # IdlePricing
    /\ pricing.pc = "loop"
    /\ pricing.iter < MaxPriceIterations
    /\ pricing' = Pass(pricing, NewPrice(pricing))
    /\ UNCHANGED <<heap, cur, snapshots, sortedEvents, idx, pc, error, uuidSeed,
                   uuidCount, events, firstRun, alloc, waterfall, vest, db>>

\* the loop condition false
PriceLoopEnd ==
    /\ pricing # IdlePricing
    /\ pricing.pc = "loop"
    /\ pricing.iter >= MaxPriceIterations
    /\ pricing' = [pricing EXCEPT !.pc = "done"]
    /\ UNCHANGED <<heap, cur, snapshots, sortedEvents, idx, pc, error, uuidSeed,
                   uuidCount, events, firstRun, alloc, waterfall, vest, db>>

NextPrice == PricePass \/ PriceLoopEnd

SpecPrice == InitPrice /\ [][NextPrice]_vars

\* a pass or the end of the loop is possible exactly while the loop runs
PriceLooping == pricing # IdlePricing /\ pricing.pc = "loop"

\* the loop runs without a pause: applyPricedRound is synchronous. This is
\* WF_vars(NextPrice) with ENABLED <<NextPrice>>_vars written out as PriceLooping
SpecPriceFair == SpecPrice /\ ([]<>~PriceLooping \/ []<><<NextPrice>>_vars)

(***************************************************************************)
(* SpecVest: calculateVestedOptions on one drawn option holding and its    *)
(* schedule, evaluated at drawn dates.                                     *)
(***************************************************************************)
MaxEvaluations == 2

VestQuantities == {4, 10}

\* schedules with cliffMonths <= totalMonths and a cliff percent of 0..100
VestSchedules ==
    { Schedule(m[1], m[2], p) :
        m \in {x \in (1..3) \X (1..4) : x[1] <= x[2]}, p \in {0, 25, 50, 100} }

\* evaluation dates, 0..4 elapsed months after a vesting start on day 0
VestDays == {0, 15, 31, 61, 92, 122}

\* the holding of a grant (applyESOPGrant) of the drawn quantity
VestHolding(quantity) ==
    [NewHolding("h1", "emp1", "opt", quantity, "e1", TRUE)
     EXCEPT !.vestingScheduleId = "vs1", !.vestingStartDate = 0, !.grantDate = 0]

\* the state that holds the drawn schedule
VestState(schedule) ==
    [createInitialState("c1") EXCEPT !.vestingSchedules =
        <<[id |-> "vs1", cliffMonths |-> schedule.cliffMonths,
           totalMonths |-> schedule.totalMonths,
           vestingFrequency |-> schedule.vestingFrequency,
           initialCliffPercent |-> schedule.initialCliffPercent]>>]

VestInputs ==
    {[holding |-> VestHolding(q), state |-> VestState(sch), evaluations |-> <<>>] :
        q \in VestQuantities, sch \in VestSchedules}

InitVest ==
    /\ heap = <<createInitialState("c1")>>
    /\ cur = 1
    /\ snapshots = <<>>
    /\ sortedEvents = <<>>
    /\ events = <<>>
    /\ idx = 0
    /\ pc = "loop"
    /\ error = ""
    /\ uuidSeed = 1
    /\ uuidCount = 0
    /\ firstRun = <<>>
    /\ alloc = IdleAlloc
    /\ waterfall = <<>>
    /\ vest \in VestInputs
    /\ db = IdleDb
    /\ pricing = IdlePricing

\* one call calculateVestedOptions(holding, asOfDate, state)
Evaluate ==
    /\ Len(vest.evaluations) < MaxEvaluations
    /\ \E asOfDate \in VestDays :
          vest' = [vest EXCEPT !.evaluations = Append(@,
                      [asOfDate |-> asOfDate,
                       vested |-> calculateVestedOptions(vest.holding, asOfDate,
                                                         vest.state)])]
    /\ UNCHANGED <<db, pricing, heap, cur, snapshots, sortedEvents, idx, pc, error, uuidSeed,
                   uuidCount, events, firstRun, alloc, waterfall>>

NextVest == Evaluate

SpecVest == InitVest /\ [][NextVest]_vars

(***************************************************************************)
(* Properties.                                                             *)
(***************************************************************************)
TypeOK ==
    /\ pc \in {"start", "loop", "thrown", "done"}
    /\ pc # "start" => cur \in Indices(heap)
    /\ \A i \in Indices(snapshots) : snapshots[i].state \in Indices(heap)
    /\ (pc = "thrown") = (error # "")

\* the event handled by the loop iteration a step performs
Stepped == idx' = idx + 1

StepEvent == sortedEvents'[idx']

Ids(s) == {s[i].id : i \in Indices(s)}

\* C1: for every total >= 0 and every list of recipients with proportions
\* >= 0, distributeSharesByLargestRemainder returns one allocation per
\* recipient, the allocations sum exactly to total and none is negative.
C1_AllocationsSumToTotal ==
    alloc.result # <<>> =>
        LET r == alloc.result[1]
        IN  /\ Len(r) = Len(alloc.recipients)
            /\ SumSeq([i \in Indices(r) |-> r[i].shares]) = alloc.total
            /\ \A i \in Indices(r) : r[i].shares >= 0

\* C2: replaying the same event list twice yields identical final states and
\* identical snapshots, generated identifiers included.
C2_ReplayIsDeterministic ==
    (pc = "done" /\ firstRun # <<>>) => Result = firstRun[1]

\* C3: a SAFE converts at most once: once convertedInEventId is set it never
\* changes, a priced round adds exactly one holding per SAFE it newly marks
\* converted (none for a SAFE converted earlier, named or not), and a
\* converted SAFE is not among the converting SAFEs of a later round.
C3_SafeConvertsAtMostOnce ==
    [][LET old == state
           new == state'
       IN  /\ \A i \in Indices(old.safes) :
                 old.safes[i].convertedInEventId # "" =>
                    /\ i \in Indices(new.safes)
                    /\ new.safes[i].convertedInEventId = old.safes[i].convertedInEventId
           /\ (Stepped /\ pc' = "loop" /\ StepEvent.type = "priced_round") =>
                 LET e == StepEvent
                     newly == {i \in Indices(old.safes) :
                                  /\ old.safes[i].convertedInEventId = ""
                                  /\ new.safes[i].convertedInEventId # ""}
                     cash == SelectSeq(e.data.investors, LAMBDA inv : lt(<<0, 1>>, inv.amount))
                     converting == ConvertingSafes(old, e.data)
                 IN  /\ \A i \in newly : new.safes[i].convertedInEventId = e.id
                     /\ Len(new.holdings) - Len(old.holdings) = Cardinality(newly) + Len(cash)
                     /\ \A j \in Indices(converting) :
                           old.safes[converting[j]].convertedInEventId = ""
      ]_vars

\* a round that names a SAFE converted by an earlier round has been applied
C3_Witness ==
    /\ pc = "loop"
    /\ idx >= 2
    /\ sortedEvents[idx].type = "priced_round"
    /\ sortedEvents[idx].data.safesToConvert # <<>>
    /\ \E i \in Indices(state.safes) :
          /\ \E j \in Indices(sortedEvents[idx].data.safesToConvert[1]) :
                sortedEvents[idx].data.safesToConvert[1][j] = state.safes[i].id
          /\ state.safes[i].convertedInEventId \notin {"", sortedEvents[idx].id}

\* C4: in every state reached by events that applyEvent accepts, every
\* holding's quantity is a non-negative integer.
C4_QuantitiesNonNegative ==
    \A i \in Indices(state.holdings) : state.holdings[i].quantity >= 0

\* C5: fullyDilutedShares of calculatePreRoundMetrics equals legalIssuedShares
\* plus the total quantity of the holdings in option share classes.
C5_FullyDilutedIsLegalPlusOptions ==
    LET m == calculatePreRoundMetrics(state)
        inOptionClass(h) ==
            \E c \in Indices(state.shareClasses) :
                /\ state.shareClasses[c].id = h.shareClassId
                /\ state.shareClasses[c].type = "option"
        optionShares ==
            SumSeq([i \in Indices(state.holdings) |->
                      IF inOptionClass(state.holdings[i])
                      THEN state.holdings[i].quantity ELSE 0])
    IN  m.fullyDilutedShares = m.legalIssuedShares + optionShares

\* C6: no entity is removed by the fold: every share class, holding, SAFE,
\* person and vesting schedule id of the state before an event is an id of
\* the state after it.
C6_NoEntityRemoved ==
    [][/\ Ids(state.shareClasses) \subseteq Ids(state'.shareClasses)
       /\ Ids(state.holdings) \subseteq Ids(state'.holdings)
       /\ Ids(state.safes) \subseteq Ids(state'.safes)
       /\ Ids(state.people) \subseteq Ids(state'.people)
       /\ Ids(state.vestingSchedules) \subseteq Ids(state'.vestingSchedules)
      ]_vars

\* an exercise has emptied an option holding, and the row is still there
C6_Witness ==
    /\ pc = "loop"
    /\ idx >= 1
    /\ sortedEvents[idx].type = "option_exercise"
    /\ \E i \in Indices(state.holdings) :
          /\ state.holdings[i].isOption
          /\ state.holdings[i].holderId = sortedEvents[idx].data.employeeId
          /\ state.holdings[i].quantity = 0

\* C7: applyEvent never mutates the state object it is given, whether it
\* returns or throws, and the states of the snapshots already recorded are
\* unaffected by later events: no object that exists before a step differs
\* after it.
C7_InputStateNeverMutated ==
    [][\A r \in Indices(heap) : r \in Indices(heap') /\ heap'[r] = heap[r]]_vars

\* an applyEvent call has thrown after mutating its copy, two snapshots with
\* different states having been recorded before
C7_Witness ==
    /\ pc = "thrown"
    /\ Len(snapshots) >= 2
    /\ heap[snapshots[1].state] # heap[snapshots[2].state]
    /\ heap[Len(heap)] # heap[cur]
    /\ heap[Len(heap)].people # heap[cur].people

\* C8: replayAllEvents applies the events in ascending order of date, events
\* of equal date in the order of the input list, whatever their ids: the
\* events applied so far are in that order and precede, in that order, every
\* event not yet applied.
C8_AppliedInStableDateOrder ==
    pc \in {"loop", "thrown", "done"} =>
        LET pos(id) == CHOOSE p \in Indices(events) : events[p].id = id
            applied == [i \in Indices(snapshots) |-> pos(snapshots[i].eventId)]
            Before(p, q) == \/ events[p].date < events[q].date
                            \/ (events[p].date = events[q].date /\ p < q)
        IN  /\ \A i, j \in Indices(applied) : i < j => Before(applied[i], applied[j])
            /\ \A p \in Indices(events) :
                  (\A i \in Indices(applied) : applied[i] # p) =>
                      \A i \in Indices(applied) : Before(applied[i], p)
            /\ pc = "done" => Len(snapshots) = Len(events)

\* a list whose first event is the latest, followed by two events of one
\* date whose ids are in descending order, has been replayed to the end
C8_Witness ==
    /\ pc = "done"
    /\ Len(events) = 3
    /\ events[1].date > events[2].date
    /\ events[2].date = events[3].date
    /\ IdRank(events[2].id) > IdRank(events[3].id)
    /\ Len(snapshots) = 3

\* C9: an ESOP Grant that asks for more shares than the unallocated pool
\* holds fails with an error and leaves the state it was applied to unchanged.
C9_GrantBeyondPoolFails ==
    [][(/\ Stepped
        /\ StepEvent.type = "esop_grant"
        /\ GrantShares(state, StepEvent.data) > getUnallocatedESOPPool(state))
       => /\ pc' = "thrown"
          /\ error' # ""
          /\ cur' = cur
          /\ heap'[cur] = heap[cur]
          /\ snapshots' = snapshots
      ]_vars

\* a grant larger than a non-empty pool has been refused
C9_Witness ==
    /\ pc = "thrown"
    /\ error = "Insufficient ESOP pool"
    /\ sortedEvents[idx].type = "esop_grant"
    /\ getUnallocatedESOPPool(state) > 0
    /\ GrantShares(state, sortedEvents[idx].data) > getUnallocatedESOPPool(state)

\* the option holding an exercise by employeeId draws on: index, 0 if none
ExercisedHolding(st, employeeId) ==
    IF \E c \in Indices(st.shareClasses) : st.shareClasses[c].type = "option"
    THEN LET optionClassId ==
                st.shareClasses[CHOOSE c \in Indices(st.shareClasses) :
                    /\ st.shareClasses[c].type = "option"
                    /\ \A b \in 1..(c - 1) : st.shareClasses[b].type # "option"].id
         IN  FindIndex(st.holdings,
                LAMBDA h : h.holderId = employeeId /\ h.isOption
                           /\ h.shareClassId = optionClassId)
    ELSE 0

\* C10: an Option Exercise of n shares dated d succeeds only if the options
\* of the grantee's holding vested as of d are at least n; otherwise it
\* throws and no holding changes.
C10_ExerciseNeedsVestedOptions ==
    [][(Stepped /\ StepEvent.type = "option_exercise") =>
          LET e == StepEvent
              h == ExercisedHolding(state, e.data.employeeId)
              vestedEnough ==
                  /\ h # 0
                  /\ gte(calculateVestedOptions(state.holdings[h], e.date,
                                                state),
                         toDecimal(e.data.shares))
          IN  /\ pc' = "loop" => vestedEnough
              /\ ~vestedEnough => pc' = "thrown"
              /\ pc' = "thrown" => /\ cur' = cur
                                   /\ state'.holdings = state.holdings
      ]_vars

\* the event carries a target ESOP percentage of 100% or more
CarriesFullPercent(e) ==
    \/ /\ e.type = "incorporation"
       /\ e.data.esopPool # <<>>
       /\ e.data.esopPool[1].inputMode = "percentage"
       /\ e.data.esopPool[1].percentage >= 100
    \/ /\ e.type = "esop_pool_creation"
       /\ e.data.inputMode = "percentage"
       /\ e.data.percentage >= 100
    \/ e.type = "esop_pool_extension" /\ e.data.targetPercent >= 100
    \/ e.type = "priced_round" /\ e.data.esopTargetPercent >= 100

\* C11: every event that carries a target ESOP percentage of 100% or more
\* (incorporation pool or pool creation in percentage mode, pool extension
\* targetPercent, priced-round esopTargetPercent) fails with an error at that
\* event and produces no new state.
C11_FullPercentFails ==
    [][(Stepped /\ CarriesFullPercent(StepEvent))
       => /\ pc' = "thrown"
          /\ error' # ""
          /\ cur' = cur
          /\ snapshots' = snapshots
      ]_vars

\* C12: for every state and every positive exit valuation, totalDistributed
\* of the ExitWaterfall equals the sum of the proceeds of its distribution
\* rows and never exceeds the exit valuation.
C12_DistributedWithinExitValue ==
    waterfall # <<>> =>
        LET w == waterfall[1]
        IN  /\ w.totalDistributed =
                  SumSeq([i \in Indices(w.distributions) |-> w.distributions[i].proceeds])
            /\ w.totalDistributed <= toFixed2(w.exitValuation)

\* the share class and the holding of exitState a payment was made for
PaidClass(w, q) ==
    w.exitState.shareClasses[CHOOSE c \in Indices(w.exitState.shareClasses) :
                                w.exitState.shareClasses[c].id = q.shareClassId]

PaidHolding(w, q) ==
    w.exitState.holdings[CHOOSE h \in Indices(w.exitState.holdings) :
                            w.exitState.holdings[h].id = q.holdingId]

\* shares x issuePrice x prefMultiple
LiquidationPreference(shares, class) ==
    times(toDecimal(shares * class.liquidationPreferenceMultiple), class.pricePerShare)

\* the shares of every holding whose class is not an option class
CommonEquivalentShares(es) ==
    SumSeq([i \in Indices(es.holdings) |->
              IF \E c \in Indices(es.shareClasses) :
                    /\ es.shareClasses[c].id = es.holdings[i].shareClassId
                    /\ es.shareClasses[c].type # "option"
              THEN es.holdings[i].quantity ELSE 0])

\* exitValuation x shares / totalCommonEquivalentShares
AsConverted(w, shares) ==
    div(times(w.exitValuation, toDecimal(shares)),
        toDecimal(CommonEquivalentShares(w.exitState)))

IsNonParticipatingPreferred(class) ==
    class.type = "preferred" /\ class.participation = "non_participating"

\* C13: in the exit waterfall every holding of a non-participating preferred
\* class is paid max(preference, asConverted), preference being shares x
\* issuePrice x prefMultiple and asConverted exitValuation x shares /
\* totalCommonEquivalentShares; the method is 'preference' exactly when
\* preference > asConverted and 'conversion' otherwise; a holder whose only
\* payment it is has a row with that amount and that method.
C13_NonParticipatingGetsMax ==
    waterfall # <<>> =>
        LET w == waterfall[1]
            expected(q) ==
                LET preference == LiquidationPreference(PaidHolding(w, q).quantity,
                                                        PaidClass(w, q))
                    asConverted == AsConverted(w, PaidHolding(w, q).quantity)
                IN  IF gt(preference, asConverted)
                    THEN [proceeds |-> preference, method |-> "preference"]
                    ELSE [proceeds |-> asConverted, method |-> "conversion"]
        IN  /\ \A i \in Indices(w.exitState.holdings) :
                  LET h == w.exitState.holdings[i]
                  IN  (/\ h.quantity > 0
                       /\ \E c \in Indices(w.exitState.shareClasses) :
                             /\ w.exitState.shareClasses[c].id = h.shareClassId
                             /\ IsNonParticipatingPreferred(w.exitState.shareClasses[c]))
                      => Cardinality({j \in Indices(w.payments) :
                                         w.payments[j].holdingId = h.id}) = 1
            /\ \A i \in Indices(w.payments) :
                  LET q == w.payments[i]
                  IN  IsNonParticipatingPreferred(PaidClass(w, q)) =>
                        /\ q.proceeds = expected(q).proceeds
                        /\ q.method = expected(q).method
                        /\ \A r \in Indices(w.distributions) :
                              (/\ w.distributions[r].holderId = q.holderId
                               /\ \A j \in Indices(w.payments) :
                                     w.payments[j].holderId = q.holderId => j = i)
                              => /\ w.distributions[r].proceeds = toFixed2(expected(q).proceeds)
                                 /\ w.distributions[r].method = expected(q).method

\* one waterfall pays a non-participating holding its preference and another
\* its as-converted amount, and a holder's row shows a preference
C13_Witness ==
    /\ waterfall # <<>>
    /\ \E i, j \in Indices(waterfall[1].payments) :
          /\ IsNonParticipatingPreferred(PaidClass(waterfall[1], waterfall[1].payments[i]))
          /\ IsNonParticipatingPreferred(PaidClass(waterfall[1], waterfall[1].payments[j]))
          /\ waterfall[1].payments[i].method = "preference"
          /\ waterfall[1].payments[j].method = "conversion"
    /\ \E r \in Indices(waterfall[1].distributions) :
          waterfall[1].distributions[r].method = "preference"

\* C14: in the exit waterfall a holding of a participating preferred class
\* is paid its liquidation preference plus its pro-rata share of the proceeds
\* that remain after the preferences, and for a capped-participating class
\* that total is capped at participationCapMultiple times the amount invested.
C14_ParticipatingGetsPreferencePlusShare ==
    waterfall # <<>> =>
        LET w == waterfall[1]
            isPreferred(q) == PaidClass(w, q).type = "preferred"
            preferences == SumDec([i \in Indices(w.payments) |->
                              IF isPreferred(w.payments[i])
                              THEN LiquidationPreference(
                                      PaidHolding(w, w.payments[i]).quantity,
                                      PaidClass(w, w.payments[i]))
                              ELSE <<0, 1>>])
            remaining == maxDec(minus(w.exitValuation, preferences), <<0, 1>>)
            uncapped(q) ==
                plus(LiquidationPreference(PaidHolding(w, q).quantity, PaidClass(w, q)),
                     div(times(remaining, toDecimal(PaidHolding(w, q).quantity)),
                         toDecimal(CommonEquivalentShares(w.exitState))))
            cap(q) ==
                times(toDecimal(PaidHolding(w, q).quantity
                                  * PaidClass(w, q).participationCapMultiple),
                      PaidClass(w, q).pricePerShare)
        IN  \A i \in Indices(w.payments) :
               LET q == w.payments[i]
               IN  /\ (isPreferred(q) /\ PaidClass(w, q).participation = "participating")
                        => q.proceeds = uncapped(q)
                   /\ (isPreferred(q)
                       /\ PaidClass(w, q).participation = "capped_participating")
                        => q.proceeds = IF lt(cap(q), uncapped(q)) THEN cap(q)
                                        ELSE uncapped(q)

\* the evaluations made in SpecVest (none in the other specifications)
Evaluations == IF vest = IdleVest THEN <<>> ELSE vest.evaluations

\* C15: for a fixed option holding and vesting schedule the vested quantity
\* is non-decreasing in the evaluation date (d1 <= d2 gives
\* vested(d1) <= vested(d2)) and never exceeds the quantity of the holding.
C15_VestedMonotoneAndBounded ==
    \A i, j \in DOMAIN Evaluations :
        /\ lte(Evaluations[i].vested, toDecimal(vest.holding.quantity))
        /\ Evaluations[i].asOfDate <= Evaluations[j].asOfDate
              => lte(Evaluations[i].vested, Evaluations[j].vested)

\* elapsed months of an evaluation, 30.44 days to the month
ElapsedMonths(evaluation) ==
    ((evaluation.asOfDate - vest.holding.vestingStartDate) * 100)
        \div DaysPerMonthTimes100

\* the vested quantity the schedule of the holding promises after the cliff
\* and before the end: floor(total x cliffPercent / 100) plus
\* floor(remaining x monthsAfterCliff / (totalMonths - cliffMonths))
ScheduledVesting(total, schedule, elapsed) ==
    LET cliffPart == (total * schedule.initialCliffPercent) \div 100
    IN  cliffPart + ((total - cliffPart) * (elapsed - schedule.cliffMonths))
                        \div (schedule.totalMonths - schedule.cliffMonths)

\* C16: for cliffMonths <= totalMonths and a cliff percent of 0..100 the
\* vested quantity is 0 before the cliff, the full quantity from totalMonths
\* on, and the floor formula of the schedule between them.
C16_VestingFollowsSchedule ==
    \A i \in DOMAIN Evaluations :
        LET schedule == vest.state.vestingSchedules[1]
            total == vest.holding.quantity
            elapsed == ElapsedMonths(Evaluations[i])
            vested == Evaluations[i].vested
        IN  /\ elapsed < schedule.cliffMonths => vested = toDecimal(0)
            /\ elapsed >= schedule.totalMonths => vested = toDecimal(total)
            /\ (elapsed >= schedule.cliffMonths /\ elapsed < schedule.totalMonths)
                  => vested = toDecimal(ScheduledVesting(total, schedule, elapsed))

\* the prices a SAFE may convert at: the round price, the cap price if it
\* has a cap, the discount price if it has a discount
ConversionPrices(safe, roundPrice, fullyDilutedShares) ==
    {roundPrice}
      \cup (IF safe.valuationCap # <<>>
            THEN {div(safe.valuationCap[1], toDecimal(fullyDilutedShares))} ELSE {})
      \cup (IF safe.discountPercent > 0
            THEN {times(roundPrice, Rat(100 - safe.discountPercent, 100))} ELSE {})

Minimum(prices) == CHOOSE x \in prices : \A y \in prices : lte(x, y)

\* the SAFEs the step of event e converts, in the order of state.safes
ConvertedBy(e) ==
    LET converts(s) == /\ IsOutstanding(state.safes[s])
                       /\ state'.safes[s].convertedInEventId = e.id
        indices == SelectSeq([s \in Indices(state.safes) |-> s], converts)
    IN  [i \in DOMAIN indices |-> state.safes[indices[i]]]

\* C17: a SAFE that converts in a priced round gets principal / effective
\* price shares, rounded half-up, where the effective price is the least of
\* the round price, the cap price (cap / pre-round fully diluted shares) if
\* it has a cap, and the discount price (round price x (1 - discount%)) if
\* it has a discount; with neither it is the round price.
C17_SafeConvertsAtLowestPrice ==
    [][(Stepped /\ StepEvent.type = "priced_round" /\ pc' = "loop") =>
          LET e == StepEvent
              fd == calculatePreRoundMetrics(state).fullyDilutedShares
              roundPrice == RoundPrice(state, e.data)
              converted == ConvertedBy(e)
          IN  \A i \in DOMAIN converted :
                LET safe == converted[i]
                    holding == state'.holdings[Len(state.holdings) + i]
                    effectivePrice ==
                        Minimum(ConversionPrices(safe, roundPrice, fd))
                IN  /\ holding.holderId = safe.investorId
                    /\ holding.sourceEventId = e.id
                    /\ holding.quantity =
                          roundShares(div(safe.principalAmount, effectivePrice))
                    /\ (safe.valuationCap = <<>> /\ safe.discountPercent = 0)
                          => effectivePrice = roundPrice
      ]_vars

\* Scenario B has happened: the SAFE of 5 with a cap of 50 and a 20% discount
\* has converted into 10 shares, at the cap price of 0.50
C17_Witness ==
    \E s \in Indices(state.safes), h \in Indices(state.holdings) :
        /\ state.safes[s].principalAmount = D(5)
        /\ state.safes[s].valuationCap = <<D(50)>>
        /\ state.safes[s].discountPercent = 20
        /\ state.safes[s].convertedInEventId # ""
        /\ state.holdings[h].sourceEventId = state.safes[s].convertedInEventId
        /\ state.holdings[h].holderId = state.safes[s].investorId
        /\ state.holdings[h].investmentAmount = <<D(5)>>
        /\ state.holdings[h].quantity = 10

\* C18: no two share classes of a state have the same seniorityRank, and a
\* preferred class created by a priced round has a seniorityRank strictly
\* greater than that of every preferred class created before it.
C18_SeniorityRanksUniqueAndIncreasing ==
    \A a, b \in Indices(state.shareClasses) :
        a < b =>
          /\ state.shareClasses[a].seniorityRank # state.shareClasses[b].seniorityRank
          /\ (state.shareClasses[a].type = "preferred"
                /\ state.shareClasses[b].type = "preferred")
                => state.shareClasses[a].seniorityRank
                      < state.shareClasses[b].seniorityRank

\* C19: replayAllEvents returns one snapshot per input event, in the order
\* the events were applied; snapshot i carries the id, date and label of the
\* i-th applied event, its state has that event's id and date as asOfEventId
\* and asOfDate, and finalState equals the state of the last snapshot.
C19_OneSnapshotPerEvent ==
    pc = "done" =>
        /\ Len(Result.snapshots) = Len(events)
        /\ \A i \in Indices(Result.snapshots) :
              LET snapshot == Result.snapshots[i]
                  event == sortedEvents[i]
              IN  /\ snapshot.eventId = event.id
                  /\ snapshot.date = event.date
                  /\ snapshot.label = event.label
                  /\ snapshot.state.asOfEventId = event.id
                  /\ snapshot.state.asOfDate = event.date
        /\ Len(events) > 0 =>
              Result.finalState = Result.snapshots[Len(events)].state

\* a list of two or more events given out of date order has been replayed
\* to the end and its result returned
C19_Witness ==
    /\ pc = "done"
    /\ Len(events) >= 2
    /\ events[1].date > events[2].date
    /\ Len(snapshots) = Len(events)
    /\ heap[cur].asOfEventId = events[1].id

\* floor(total x proportion) of recipient i of the allocator's input
FloorShare(i) == floorDec(times(toDecimal(alloc.total), alloc.recipients[i].proportion))

\* the fractional remainder of recipient i
Remainder(i) ==
    minus(times(toDecimal(alloc.total), alloc.recipients[i].proportion),
          toDecimal(FloorShare(i)))

\* the units recipient i got on top of its floor
ExtraUnits(i) == alloc.result[1][i].shares - FloorShare(i)

\* the units the floors leave undistributed
Shortfall == alloc.total - SumSeq([i \in Indices(alloc.recipients) |-> FloorShare(i)])

\* C20: the extra units that cover the shortfall go to the recipients in
\* descending order of fractional remainder, among equal remainders to the
\* one earlier in the input list first; every recipient ends with
\* floor(total x proportion) or that value plus one.
C20_ExtrasByLargestRemainder ==
    alloc.result # <<>> =>
        LET n == Len(alloc.recipients)
            ahead(i, j) == \/ lt(Remainder(j), Remainder(i))
                           \/ (Remainder(i) = Remainder(j) /\ i < j)
        IN  /\ \A i \in 1..n : ExtraUnits(i) \in {0, 1}
            /\ \A i, j \in 1..n :
                  (ahead(i, j) /\ ExtraUnits(j) = 1) => ExtraUnits(i) = 1
            /\ Cardinality({i \in 1..n : ExtraUnits(i) = 1})
                  = (IF Shortfall < 0 THEN 0
                     ELSE IF Shortfall < n THEN Shortfall ELSE n)

\* two recipients had the same non-zero remainder; the earlier one got an
\* extra unit and the later one did not
C20_Witness ==
    /\ alloc.result # <<>>
    /\ \E i, j \in Indices(alloc.recipients) :
          /\ i < j
          /\ Remainder(i) = Remainder(j)
          /\ Remainder(i) # toDecimal(0)
          /\ ExtraUnits(i) = 1
          /\ ExtraUnits(j) = 0

\* the holdings the step has appended to state.holdings
NewHoldings ==
    SubSeq(state'.holdings, Len(state.holdings) + 1, Len(state'.holdings))

\* C21: after an Incorporation in percentage mode the founders' common
\* holdings sum exactly to totalIssuedShares and each founder holds their
\* percentage of the total up to largest-remainder rounding; in shares mode
\* each founder holds exactly the stated share count.
C21_FoundersHoldTotalIssuedShares ==
    [][(Stepped /\ StepEvent.type = "incorporation" /\ pc' = "loop") =>
          LET data == StepEvent.data
              founders == data.founders
              issued == [i \in Indices(founders) |-> NewHoldings[i]]
              floorOf(i) == (data.totalIssuedShares * founders[i].percentage) \div 100
          IN  /\ \A i \in Indices(founders) :
                    /\ issued[i].holderId = founders[i].personId
                    /\ ~issued[i].isOption
              /\ data.founderInputMode = "percentage" =>
                    /\ SumSeq([i \in Indices(founders) |-> issued[i].quantity])
                          = data.totalIssuedShares
                    /\ \A i \in Indices(founders) :
                          issued[i].quantity \in {floorOf(i), floorOf(i) + 1}
              /\ data.founderInputMode = "shares" =>
                    \A i \in Indices(founders) :
                        issued[i].quantity = founders[i].shares
      ]_vars

\* n / d rounded half-up, for n >= 0 and d > 0
RoundHalfUp(n, d) == (2 * n + d) \div (2 * d)

\* the shares held by the pool sentinel in state st
PoolQuantity(st) ==
    SumSeq([i \in Indices(st.holdings) |->
              IF st.holdings[i].holderId = ESOP_POOL_HOLDER_ID
              THEN st.holdings[i].quantity ELSE 0])

\* C22: ESOP Pool Creation in percentage mode with target p < 100% on a state
\* with L legal issued shares adds round(L x p / (1 - p)) shares to the pool
\* holding; when the division is exact, a new pool is exactly p of (L + pool).
C22_PoolCreationFromPercent ==
    [][(/\ Stepped
        /\ StepEvent.type = "esop_pool_creation"
        /\ StepEvent.data.inputMode = "percentage"
        /\ StepEvent.data.percentage < 100)
       => LET p == StepEvent.data.percentage
              L == calculatePreRoundMetrics(state).legalIssuedShares
              added == PoolQuantity(state') - PoolQuantity(state)
          IN  /\ pc' = "loop"
              /\ added = RoundHalfUp(L * p, 100 - p)
              /\ ((L * p) % (100 - p) = 0 /\ PoolQuantity(state) = 0)
                    => 100 * PoolQuantity(state') = p * (L + PoolQuantity(state'))
      ]_vars

\* Scenario C has happened: a pool of 10% created on 9 legal issued shares
\* holds exactly 1 share
C22_Witness ==
    /\ pc = "loop"
    /\ idx >= 2
    /\ sortedEvents[idx].type = "esop_pool_creation"
    /\ sortedEvents[idx].data.inputMode = "percentage"
    /\ sortedEvents[idx].data.percentage = 10
    /\ calculatePreRoundMetrics(state).legalIssuedShares = 9
    /\ PoolQuantity(state) = 1

\* the numbers of Option classes, pool holdings and pool sentinel persons
PoolEntities(st) ==
    [classes |-> Cardinality({i \in Indices(st.shareClasses) :
                                 st.shareClasses[i].type = "option"}),
     holdings |-> Cardinality({i \in Indices(st.holdings) :
                                  st.holdings[i].holderId = ESOP_POOL_HOLDER_ID}),
     persons |-> Cardinality({i \in Indices(st.people) :
                                 st.people[i].id = ESOP_POOL_HOLDER_ID})]

\* the size an ESOP Pool Creation computes on state st
ComputedPoolSize(st, data) ==
    IF data.inputMode = "percentage"
    THEN RoundHalfUp(calculatePreRoundMetrics(st).legalIssuedShares * data.percentage,
                     100 - data.percentage)
    ELSE data.shares

\* C27: ESOP Pool Creation on a state that has an Option class and a pool
\* sentinel holding adds no second Option class, pool holding or sentinel
\* person and adds the computed size to the pool holding; on a state with
\* none of them it creates exactly one of each.
C27_PoolCreatedOnce ==
    [][(Stepped /\ StepEvent.type = "esop_pool_creation" /\ pc' = "loop") =>
          LET before == PoolEntities(state)
              after == PoolEntities(state')
          IN  /\ (before.classes >= 1 /\ before.holdings >= 1) =>
                    /\ after.classes = before.classes
                    /\ after.holdings = before.holdings
                    /\ after.persons = before.persons
                    /\ PoolQuantity(state') =
                          PoolQuantity(state) + ComputedPoolSize(state, StepEvent.data)
              /\ (before.classes = 0 /\ before.holdings = 0 /\ before.persons = 0) =>
                    /\ after = [classes |-> 1, holdings |-> 1, persons |-> 1]
                    /\ PoolQuantity(state') = ComputedPoolSize(state, StepEvent.data)
      ]_vars

\* a second ESOP Pool Creation has been applied to a state whose pool an
\* earlier one created, and there is still one Option class, one pool
\* holding and one sentinel person
C27_Witness ==
    /\ pc = "loop"
    /\ \E i, j \in Indices(sortedEvents) :
          /\ i < j
          /\ j <= idx
          /\ sortedEvents[i].type = "esop_pool_creation"
          /\ sortedEvents[j].type = "esop_pool_creation"
    /\ PoolEntities(state) = [classes |-> 1, holdings |-> 1, persons |-> 1]
    /\ PoolQuantity(state) > 4

\* C28: ESOP Pool Extension with target p < 100% never decreases the pool:
\* with nonPool = fullyDiluted - currentPool and target = round-half-up of
\* nonPool x p / (1 - p), the pool after the event is currentPool +
\* max(0, target - currentPool) and no other holding changes; a positive
\* shortfall is actually added to the pool holding.
C28_PoolExtendedToTarget ==
    [][(/\ Stepped
        /\ StepEvent.type = "esop_pool_extension"
        /\ StepEvent.data.targetPercent < 100)
       => LET p == StepEvent.data.targetPercent
              currentPool == getUnallocatedESOPPool(state)
              nonPool == calculatePreRoundMetrics(state).fullyDilutedShares - currentPool
              target == RoundHalfUp(nonPool * p, 100 - p)
              shortfall == IF target > currentPool THEN target - currentPool ELSE 0
          IN  /\ pc' = "loop"
              /\ getUnallocatedESOPPool(state') = currentPool + shortfall
              /\ Len(state'.holdings) = Len(state.holdings)
              /\ \A h \in Indices(state.holdings) :
                    state.holdings[h].holderId # ESOP_POOL_HOLDER_ID
                        => state'.holdings[h] = state.holdings[h]
      ]_vars

\* the option holdings, and the common (non-option) holdings, of a person
OptionHoldingsOf(st, personId) ==
    {h \in Indices(st.holdings) :
        st.holdings[h].holderId = personId /\ st.holdings[h].isOption}

SharesIn(st, hs) ==
    SumSeq([h \in Indices(st.holdings) |->
              IF h \in hs THEN st.holdings[h].quantity ELSE 0])

CommonHoldingsOf(st, personId) ==
    {h \in Indices(st.holdings) :
        /\ st.holdings[h].holderId = personId
        /\ ~st.holdings[h].isOption
        /\ ShareClassOf(st, st.holdings[h].shareClassId) # 0
        /\ st.shareClasses[ShareClassOf(st, st.holdings[h].shareClassId)].type
              = "common"}

\* C23: a successful ESOP Grant of n shares decreases the unallocated pool
\* holding by exactly n and increases the grantee's option holdings by
\* exactly n; fullyDilutedShares, legalIssuedShares and every other holder's
\* holdings are unchanged.
C23_GrantMovesSharesFromPool ==
    [][(/\ Stepped
        /\ StepEvent.type = "esop_grant"
        /\ StepEvent.data.grantMode = "shares"
        /\ pc' = "loop")
       => LET n == StepEvent.data.shares
              grantee == StepEvent.data.employeeId
          IN  /\ PoolQuantity(state') = PoolQuantity(state) - n
              /\ SharesIn(state', OptionHoldingsOf(state', grantee))
                    = SharesIn(state, OptionHoldingsOf(state, grantee)) + n
              /\ calculatePreRoundMetrics(state') = calculatePreRoundMetrics(state)
              /\ \A h \in Indices(state.holdings) :
                    state.holdings[h].holderId # ESOP_POOL_HOLDER_ID
                        => state'.holdings[h] = state.holdings[h]
              /\ \A h \in Indices(state'.holdings) \ Indices(state.holdings) :
                    state'.holdings[h].holderId = grantee
      ]_vars

\* a grant has just been applied to a state where another person holds
\* options: the pool has shrunk by the grant
C23_Witness ==
    /\ pc = "loop"
    /\ idx >= 3
    /\ sortedEvents[idx].type = "esop_grant"
    /\ sortedEvents[idx - 1].type = "esop_grant"
    /\ sortedEvents[idx].data.employeeId # sortedEvents[idx - 1].data.employeeId
    /\ PoolQuantity(state) + sortedEvents[idx].data.shares
          + sortedEvents[idx - 1].data.shares = 4

\* C24: a successful Option Exercise of n shares decreases the grantee's
\* option holding by exactly n and increases the grantee's common holding by
\* exactly n, creating that common holding only if the grantee has none and
\* otherwise adding to the existing one; legalIssuedShares rises by n and
\* fullyDilutedShares is unchanged.
C24_ExerciseTurnsOptionsIntoCommon ==
    [][(/\ Stepped
        /\ StepEvent.type = "option_exercise"
        /\ pc' = "loop")
       => LET n == StepEvent.data.shares
              grantee == StepEvent.data.employeeId
              before == calculatePreRoundMetrics(state)
              after == calculatePreRoundMetrics(state')
          IN  /\ SharesIn(state', OptionHoldingsOf(state', grantee))
                    = SharesIn(state, OptionHoldingsOf(state, grantee)) - n
              /\ SharesIn(state', CommonHoldingsOf(state', grantee))
                    = SharesIn(state, CommonHoldingsOf(state, grantee)) + n
              /\ IF CommonHoldingsOf(state, grantee) = {}
                 THEN Cardinality(CommonHoldingsOf(state', grantee)) = 1
                 ELSE CommonHoldingsOf(state', grantee)
                         = CommonHoldingsOf(state, grantee)
              /\ after.legalIssuedShares = before.legalIssuedShares + n
              /\ after.fullyDilutedShares = before.fullyDilutedShares
      ]_vars

\* a second exercise by the same person has been added to the common holding
\* that the first exercise created
C24_Witness ==
    /\ pc = "loop"
    /\ idx >= 4
    /\ sortedEvents[idx].type = "option_exercise"
    /\ sortedEvents[idx - 1].type = "option_exercise"
    /\ sortedEvents[idx].data.employeeId = "emp1"
    /\ sortedEvents[idx - 1].data.employeeId = "emp1"
    /\ Cardinality(CommonHoldingsOf(state, "emp1")) = 1
    /\ SharesIn(state, CommonHoldingsOf(state, "emp1"))
          = sortedEvents[idx].data.shares + sortedEvents[idx - 1].data.shares

GrantsTo(employeeId) ==
    {i \in 1..idx : /\ sortedEvents[i].type = "esop_grant"
                    /\ sortedEvents[i].data.employeeId = employeeId}

\* the shares the employee has exercised in events dated d or earlier
ExercisedUpTo(employeeId, d) ==
    SumSeq([i \in 1..idx |->
              IF /\ sortedEvents[i].type = "option_exercise"
                 /\ sortedEvents[i].data.employeeId = employeeId
                 /\ sortedEvents[i].date <= d
              THEN sortedEvents[i].data.shares ELSE 0])

\* the vested part, as of d, of the quantity the grant event granted
VestedOfGrant(employeeId, grant, d) ==
    calculateVestedOptions(
        [state.holdings[ExercisedHolding(state, employeeId)]
            EXCEPT !.quantity = sortedEvents[grant].data.shares],
        d, state)

\* C25: the cumulative number of options exercised up to a date d against
\* one grant never exceeds the number of options of the originally granted
\* quantity that have vested as of d.
C25_ExercisedWithinVestedOfGrant ==
    pc = "loop" =>
        \A j \in 1..idx :
            (/\ sortedEvents[j].type = "option_exercise"
             /\ Cardinality(GrantsTo(sortedEvents[j].data.employeeId)) = 1)
            => LET e == sortedEvents[j].data.employeeId
                   g == CHOOSE i \in GrantsTo(e) : TRUE
               IN  lte(toDecimal(ExercisedUpTo(e, sortedEvents[j].date)),
                       VestedOfGrant(e, g, sortedEvents[j].date))

\* C26: after a successful ESOP Grant the employee has a single option
\* holding, whose quantity is what the employee held in options before the
\* grant plus the granted shares.
C26_GrantsShareOneHolding ==
    [][(/\ Stepped
        /\ StepEvent.type = "esop_grant"
        /\ StepEvent.data.grantMode = "shares"
        /\ pc' = "loop")
       => LET grantee == StepEvent.data.employeeId
          IN  /\ Cardinality(OptionHoldingsOf(state', grantee)) = 1
              /\ SharesIn(state', OptionHoldingsOf(state', grantee))
                    = SharesIn(state, OptionHoldingsOf(state, grantee))
                         + StepEvent.data.shares
      ]_vars

PersonIds(st) == {st.people[i].id : i \in Indices(st.people)}

\* C29: a SAFE Issuance leaves holdings, share classes and vesting schedules
\* unchanged; it appends exactly one SAFE per note of the event, each with
\* convertedInEventId unset and issueDate equal to the event date, and adds
\* a person only for investors not already present.
C29_IssuanceAppendsSafesOnly ==
    [][(/\ Stepped
        /\ StepEvent.type = "safe_issuance"
        /\ pc' = "loop")
       => LET notes == StepEvent.data.safes
              had == Len(state.safes)
              known == Len(state.people)
              newInvestors == {notes[i].investorId : i \in Indices(notes)}
                                 \ PersonIds(state)
          IN  /\ state'.holdings = state.holdings
              /\ state'.shareClasses = state.shareClasses
              /\ state'.vestingSchedules = state.vestingSchedules
              /\ Len(state'.safes) = had + Len(notes)
              /\ SubSeq(state'.safes, 1, had) = state.safes
              /\ \A i \in Indices(notes) :
                    /\ state'.safes[had + i].convertedInEventId = ""
                    /\ state'.safes[had + i].issueDate = StepEvent.date
                    /\ state'.safes[had + i].investorId = notes[i].investorId
                    /\ state'.safes[had + i].principalAmount = notes[i].principalAmount
              /\ SubSeq(state'.people, 1, known) = state.people
              /\ Len(state'.people) = known + Cardinality(newInvestors)
              /\ {state'.people[i].id : i \in (known + 1)..Len(state'.people)}
                    = newInvestors
      ]_vars

\* two notes of one new investor have been issued after a conversion: two
\* SAFEs more, one person more
C29_Witness ==
    /\ pc = "loop"
    /\ idx >= 3
    /\ sortedEvents[idx].label = "safe_twice"
    /\ \E s \in Indices(state.safes) : state.safes[s].convertedInEventId # ""
    /\ Cardinality({s \in Indices(state.safes) :
                        state.safes[s].investorId = "inv4"}) = 2
    /\ Cardinality({i \in Indices(state.people) :
                        state.people[i].id = "inv4"}) = 1

\* the payments of the waterfall made for holdings of preferred classes
PreferredPayments(w) ==
    {i \in Indices(w.payments) : PaidClass(w, w.payments[i]).type = "preferred"}

\* the liquidation preferences of the classes of a seniorityRank above rank
PreferencesSeniorTo(w, rank) ==
    SumDec([h \in Indices(w.exitState.holdings) |->
              LET c == ShareClassOf(w.exitState, w.exitState.holdings[h].shareClassId)
              IN  IF /\ c # 0
                     /\ w.exitState.shareClasses[c].type = "preferred"
                     /\ w.exitState.shareClasses[c].seniorityRank > rank
                  THEN LiquidationPreference(w.exitState.holdings[h].quantity,
                                             w.exitState.shareClasses[c])
                  ELSE toDecimal(0)])

\* C30: liquidation preferences are paid in descending seniorityRank; when
\* the exit valuation is less than the sum of all liquidation preferences, a
\* preferred class is paid only what is left of the exit valuation after the
\* full preferences of every more senior preferred class, and the common
\* holdings are paid nothing.
C30_SeniorPreferencesPaidFirst ==
    waterfall # <<>> =>
        LET w == waterfall[1]
        IN  /\ \A i, j \in PreferredPayments(w) :
                  i < j => PaidClass(w, w.payments[i]).seniorityRank
                              >= PaidClass(w, w.payments[j]).seniorityRank
            /\ lt(w.exitValuation, PreferencesSeniorTo(w, -1)) =>
                  /\ \A i \in PreferredPayments(w) :
                        gt(w.payments[i].proceeds, toDecimal(0)) =>
                           lt(PreferencesSeniorTo(w,
                                 PaidClass(w, w.payments[i]).seniorityRank),
                              w.exitValuation)
                  /\ \A i \in Indices(w.payments) \ PreferredPayments(w) :
                        isZero(w.payments[i].proceeds)

\* C31: in every reachable state every holding's holderId is the id of a
\* person of state.people and every holding's shareClassId is the id of a
\* share class of state.shareClasses.
C31_HoldingsReferToPeopleAndClasses ==
    \A h \in Indices(state.holdings) :
        /\ state.holdings[h].holderId \in PersonIds(state)
        /\ ShareClassOf(state, state.holdings[h].shareClassId) # 0

\* C32: calculateExitWaterfall leaves the state it is given, and every
\* other state object, as it was: the caller's holdings, share classes,
\* people and SAFEs are the same after the call; two waterfalls computed on
\* the same state for the same exit valuation have the same distributions.
C32_WaterfallLeavesStateUnchanged ==
    [][waterfall' # waterfall
       => /\ cur' = cur
          /\ SubSeq(heap', 1, Len(heap)) = heap
          /\ state'.holdings = state.holdings
          /\ state'.shareClasses = state.shareClasses
          /\ state'.people = state.people
          /\ state'.safes = state.safes
          /\ \A i, j \in Indices(waterfall') :
                waterfall'[i].exitValuation = waterfall'[j].exitValuation
                   => /\ waterfall'[i].distributions = waterfall'[j].distributions
                      /\ waterfall'[i].totalDistributed = waterfall'[j].totalDistributed
      ]_vars

\* a waterfall has been computed twice for one valuation on a state with an
\* outstanding SAFE and no preferred class: each exitState has a conversion
\* class and a conversion holding, the state has neither
C32_Witness ==
    /\ Len(waterfall) = 2
    /\ waterfall[1].exitValuation = waterfall[2].exitValuation
    /\ \E s \in Indices(state.safes) : IsOutstanding(state.safes[s])
    /\ PreferredClasses(state) = <<>>
    /\ \A i \in {1, 2} :
          /\ Len(waterfall[i].exitState.shareClasses) = Len(state.shareClasses) + 1
          /\ Len(waterfall[i].exitState.holdings) > Len(state.holdings)

\* C33: under any interleaving of concurrent remove-member requests for one
\* company, a company that has at least one member never has zero members.
C33_CompanyKeepsAMember ==
    db.removals # <<>> => MembersOf(db, "c1") # {}

\* C34: after a create-company request has completed, with any response,
\* every company row it inserted has the requesting user as a member, and a
\* 201 response implies that the company and the membership exist.
C34_CreatedCompanyHasItsMember ==
    \A r \in DOMAIN db.creations :
        db.creations[r].pc = "done" =>
            /\ db.creations[r].company \in db.companies
                  => <<db.creations[r].company, db.creations[r].user>> \in db.members
            /\ db.creations[r].status = 201
                  => /\ db.creations[r].company \in db.companies
                     /\ <<db.creations[r].company, db.creations[r].user>> \in db.members

\* C35: for every reachable state buildLegalCapTable has no row for the
\* pool sentinel and counts no option holding, and the sum of totalShares
\* of its rows equals its totalShares, which equals legalIssuedShares of
\* calculatePreRoundMetrics.
C35_LegalCapTableSumsToLegalIssued ==
    LET t == buildLegalCapTable(state)
    IN  /\ \A r \in Indices(t.rows) :
              /\ t.rows[r].holderId # ESOP_POOL_HOLDER_ID
              /\ t.rows[r].totalShares =
                    SumSeq([h \in Indices(state.holdings) |->
                              IF /\ state.holdings[h].holderId = t.rows[r].holderId
                                 /\ ~state.holdings[h].isOption
                              THEN state.holdings[h].quantity ELSE 0])
        /\ SumSeq([r \in Indices(t.rows) |-> t.rows[r].totalShares]) = t.totalShares
        /\ t.totalShares = calculatePreRoundMetrics(state).legalIssuedShares

\* the price a pass started from
PriceBefore(pr, i) == IF i = 1 THEN pr.initialPrice ELSE pr.prices[i - 1]

Converged(pr, i) ==
    lt(absDec(minus(pr.prices[i], PriceBefore(pr, i))), PriceTolerance)

\* C36: the price iteration of a post-money round terminates; it has then
\* made at most 10 passes, none before the last has a new price within
\* 0.0001 of the price before it, the last has one unless it is the 10th,
\* and the round price is the new price of the last pass made.
C36_PriceIterationTerminates ==
    <>(/\ pricing.pc = "done"
       /\ Len(pricing.prices) >= 1
       /\ Len(pricing.prices) <= MaxPriceIterations
       /\ \A i \in 1..(Len(pricing.prices) - 1) : ~Converged(pricing, i)
       /\ Len(pricing.prices) < MaxPriceIterations
             => Converged(pricing, Len(pricing.prices))
       /\ pricing.pricePerShare = pricing.prices[Len(pricing.prices)]
       /\ pricing.pricePerShare =
             IteratePrice(0, pricing.initialPrice, pricing.postMoneyValuation,
                          pricing.totalCashInvestment, pricing.preRoundFD,
                          pricing.convertingSafes))

\* the loop has stopped at a pass between the third and the ninth, whose
\* new price is within the tolerance of the one before and differs from it
C36_Witness ==
    /\ pricing # IdlePricing
    /\ pricing.pc = "done"
    /\ Len(pricing.prices) >= 3
    /\ Len(pricing.prices) < MaxPriceIterations
    /\ Converged(pricing, Len(pricing.prices))
    /\ pricing.prices[Len(pricing.prices)] # pricing.prices[Len(pricing.prices) - 1]

====
